---- MODULE Spec2Model ----
(***************************************************************************)
(* A model of the NES emulator of micpst/NES-emulator: the 6502 processor  *)
(* (nes/cpu.py), the system bus (nes/bus.py), the picture unit's register  *)
(* ports (nes/ppu.py) and the cartridge (nes/cartridge.py).                *)
(*                                                                         *)
(* Python integers are unbounded, so registers are modelled as Int and are *)
(* masked only where the source masks them.  Python's bitwise operators on *)
(* (possibly negative) integers are computed in a two's complement window  *)
(* of BW bits, wide enough for every value the bounded runs produce.       *)
(***************************************************************************)
EXTENDS Integers, Sequences, FiniteSets, TLC

(* ------------------------------ bounds --------------------------------- *)

\* Width of the two's complement window of the bitwise operators.
BW == 24

\* Driver calls of clock() are enabled while _clock_count < MaxClock.
MaxClock == 16

\* Number of reset / interrupt_request / nonmaskable_interrupt_request calls
\* the driver makes in one run.
MaxCalls == 2

\* Driver calls of Bus.clock() are enabled while the picture unit has been
\* clocked fewer than MaxBusClock times.
MaxBusClock == 12

\* Number of bus access and cartridge calls the driver makes in one run.
MaxAccess == 3

\* PPU.clock() is explored while the picture unit was clocked fewer than
\* MaxPpuClock times: one frame (261 scanlines of 341 cycles) and the
\* pre-render scanline after it.
MaxPpuClock == 89350

\* Number of PPU.clock() calls explored after a PPU.reset().
MaxAfterReset == 3

\* CPU.clock() calls of a run of an arithmetic program: SEC, LDA and the
\* addition or subtraction take 6.
MaxArithClock == 6

\* CPU.clock() calls explored after the stack-filling program reached its JSR.
MaxDeepClock == 8

\* Times the driver clears the frame-complete flag in one run.
MaxFrames == 1

(* ------------------- Python integer operators -------------------------- *)

Pow2(n) ==
    2 ^ n

\* The window's image of an integer, and back.
ToTC(a) ==
    a % Pow2(BW)

FromTC(u) ==
    IF u >= Pow2(BW - 1) THEN u - Pow2(BW) ELSE u

\* The bitwise operators on naturals below 2^k, k > 0: the low k \div 2 bits
\* and the bits above them are combined separately.
RECURSIVE BitsAnd(_, _, _)
BitsAnd(a, b, k) ==
    IF a = 0 \/ b = 0 THEN 0
    ELSE IF k = 1 THEN 1
    ELSE BitsAnd(a % Pow2(k \div 2), b % Pow2(k \div 2), k \div 2)
         + Pow2(k \div 2) * BitsAnd(a \div Pow2(k \div 2), b \div Pow2(k \div 2), k - k \div 2)

RECURSIVE BitsOr(_, _, _)
BitsOr(a, b, k) ==
    IF a = 0 THEN b
    ELSE IF b = 0 THEN a
    ELSE IF k = 1 THEN 1
    ELSE BitsOr(a % Pow2(k \div 2), b % Pow2(k \div 2), k \div 2)
         + Pow2(k \div 2) * BitsOr(a \div Pow2(k \div 2), b \div Pow2(k \div 2), k - k \div 2)

RECURSIVE BitsXor(_, _, _)
BitsXor(a, b, k) ==
    IF a = 0 THEN b
    ELSE IF b = 0 THEN a
    ELSE IF k = 1 THEN 0
    ELSE BitsXor(a % Pow2(k \div 2), b % Pow2(k \div 2), k \div 2)
         + Pow2(k \div 2) * BitsXor(a \div Pow2(k \div 2), b \div Pow2(k \div 2), k - k \div 2)

\* The bitwise operators on naturals of any size, BW bits at a time.
RECURSIVE NatAnd(_, _)
NatAnd(a, b) ==
    IF a < Pow2(BW) \/ b < Pow2(BW) THEN BitsAnd(a % Pow2(BW), b % Pow2(BW), BW)
    ELSE BitsAnd(a % Pow2(BW), b % Pow2(BW), BW)
         + Pow2(BW) * NatAnd(a \div Pow2(BW), b \div Pow2(BW))

RECURSIVE NatOr(_, _)
NatOr(a, b) ==
    IF a < Pow2(BW) /\ b < Pow2(BW) THEN BitsOr(a, b, BW)
    ELSE BitsOr(a % Pow2(BW), b % Pow2(BW), BW)
         + Pow2(BW) * NatOr(a \div Pow2(BW), b \div Pow2(BW))

RECURSIVE NatXor(_, _)
NatXor(a, b) ==
    IF a < Pow2(BW) /\ b < Pow2(BW) THEN BitsXor(a, b, BW)
    ELSE BitsXor(a % Pow2(BW), b % Pow2(BW), BW)
         + Pow2(BW) * NatXor(a \div Pow2(BW), b \div Pow2(BW))

\* Python's a & b, a | b, a ^ b, ~a, a << n, a >> n.
And(a, b) ==
    IF a >= 0 /\ b >= 0 THEN NatAnd(a, b) ELSE FromTC(NatAnd(ToTC(a), ToTC(b)))

Or(a, b) ==
    IF a >= 0 /\ b >= 0 THEN NatOr(a, b) ELSE FromTC(NatOr(ToTC(a), ToTC(b)))

Xor(a, b) ==
    IF a >= 0 /\ b >= 0 THEN NatXor(a, b) ELSE FromTC(NatXor(ToTC(a), ToTC(b)))

Not(a) ==
    0 - a - 1

Shl(a, n) ==
    a * Pow2(n)

Shr(a, n) ==
    a \div Pow2(n)

\* Python's int(b) of a bool, as used by a + True, x | True and -value.
BoolInt(b) ==
    IF b THEN 1 ELSE 0

(* ---------------------------- Python lists ----------------------------- *)

\* A list of integers that starts all zero (n * [0x00]) is kept as the
\* function from the indices of its non-zero cells to their values.
ZeroList ==
    [i \in {} |-> 0]

ListGet(l, i) ==
    IF i \in DOMAIN l THEN l[i] ELSE 0

ListSet(l, i, v) ==
    IF v = 0
    THEN [j \in (DOMAIN l) \ {i} |-> l[j]]
    ELSE [j \in (DOMAIN l) \cup {i} |-> IF j = i THEN v ELSE l[j]]

\* Python's None, and the exceptions the code raises: objects, told apart by
\* their class.
None ==
    [class |-> "NoneType"]

TypeError ==
    [class |-> "TypeError"]

IndexError ==
    [class |-> "IndexError"]

KeyError ==
    [class |-> "KeyError"]

OSError ==
    [class |-> "OSError"]

\* The element of a one-element set; Only({ e(x) : x \in {v} }) is e with x
\* naming the value of v, evaluated once.
Only(S) ==
    CHOOSE x \in S : TRUE

(* ------------------------- nes/cartridge.py ---------------------------- *)

\* Cartridge.MIRROR
HORIZONTAL ==
    "HORIZONTAL"

VERTICAL ==
    "VERTICAL"

\* What the file system holds at a path: nothing that open() can open (it
\* raises an OSError), or an image: the header's program-bank count,
\* pattern-bank count and two flag bytes, and the size bytes that follow the
\* 16-byte header, body being the non-zero ones by offset.
Unopenable ==
    [opens |-> FALSE]

\* The number of bytes f.read(n) returns at offset pos of the body, and
\* list(f.read(n)), again by its non-zero cells.
FileLen(file, pos, n) ==
    IF file.size - pos <= 0 THEN 0
    ELSE IF n < file.size - pos THEN n ELSE file.size - pos

FileRead(file, pos, n) ==
    [i \in {j - pos : j \in {k \in DOMAIN file.body : pos <= k /\ k < pos + FileLen(file, pos, n)}}
        |-> file.body[i + pos]]

\* The class registered in Cartridge.mappers under id 0.  The repository
\* registers Mapper000, which leaves Mapper's four abstract methods
\* undefined; a program may put a subclass that defines them in its place,
\* which inherits map_read and map_write.
Mapper000 ==
    "Mapper000"

Mapper000Subclass ==
    "Mapper000Subclass"

\* Mapper.__init__ under ABCMeta: a class with abstract methods left cannot
\* be instantiated.  The result is the instance, or the exception raised.
Mapper_init(cls, prg_banks, chr_banks) ==
    IF cls = Mapper000
    THEN [mapper |-> None, exc |-> TypeError]
    ELSE [mapper |-> [prg_banks |-> prg_banks, chr_banks |-> chr_banks], exc |-> None]

\* Cartridge.__init__ up to the try statement, which is also what a failed
\* open() leaves.  prg_size and chr_size are the lengths of the two lists.
Cartridge_blank ==
    [prg_banks |-> 0, chr_banks |-> 0,
     prg_memory |-> ZeroList, prg_size |-> 0,
     chr_memory |-> ZeroList, chr_size |-> 0,
     mapper |-> None, mirror |-> HORIZONTAL, valid_image |-> FALSE]

\* mapper_id = ((mapper_2 >> 4) << 4) | (mapper_1 >> 4)
Cartridge_mapper_id(file) ==
    Or(Shl(Shr(file.mapper_2, 4), 4), Shr(file.mapper_1, 4))

\* The body of the with statement when nothing in it raises; pos is where
\* the body is read from (past the trainer, if any) and m the mapper.
Cartridge_loaded(file, pos, m) ==
    [prg_banks |-> file.prg_rom_chunks, chr_banks |-> file.chr_rom_chunks,
     prg_memory |-> FileRead(file, pos, file.prg_rom_chunks * 16384),
     prg_size |-> FileLen(file, pos, file.prg_rom_chunks * 16384),
     chr_memory |-> FileRead(file, pos + FileLen(file, pos, file.prg_rom_chunks * 16384),
                             file.chr_rom_chunks * 8192),
     chr_size |-> FileLen(file, pos + FileLen(file, pos, file.prg_rom_chunks * 16384),
                          file.chr_rom_chunks * 8192),
     mapper |-> m,
     mirror |-> IF And(file.mapper_1, 1) # 0 THEN VERTICAL ELSE HORIZONTAL,
     valid_image |-> TRUE]

\* A constructor that does not catch the OSError of a failed open().
Cartridge_init_uncaught(file, cls) ==
    IF file = Unopenable THEN [cart |-> None, exc |-> OSError]
    ELSE IF Cartridge_mapper_id(file) # 0 THEN [cart |-> None, exc |-> KeyError]
    ELSE Only({ IF m.exc # None THEN [cart |-> None, exc |-> m.exc]
                ELSE [cart |-> Cartridge_loaded(file, IF And(file.mapper_1, 4) # 0 THEN 512 ELSE 0,
                                                m.mapper),
                      exc |-> None]
              : m \in {Mapper_init(cls, file.prg_rom_chunks, file.chr_rom_chunks)} })

\* Cartridge.__init__: the cartridge constructed, or the exception that
\* escapes the constructor (only OSError is caught).
Cartridge_init(file, cls) ==
    IF file = Unopenable THEN [cart |-> Cartridge_blank, exc |-> None]
    ELSE IF Cartridge_mapper_id(file) # 0 THEN [cart |-> None, exc |-> KeyError]
    ELSE Only({ IF m.exc # None THEN [cart |-> None, exc |-> m.exc]
                ELSE [cart |-> Cartridge_loaded(file, IF And(file.mapper_1, 4) # 0 THEN 512 ELSE 0,
                                                m.mapper),
                      exc |-> None]
              : m \in {Mapper_init(cls, file.prg_rom_chunks, file.chr_rom_chunks)} })

\* A map_read that masks to 0x3FFF for exactly one program bank and to
\* 0x7FFF for every other count.
Mapper000_map_read_one(mapper, address) ==
    IF 0 <= address /\ address <= 8191 THEN address
    ELSE IF 32768 <= address /\ address <= 65535
    THEN And(address, IF mapper.prg_banks = 1 THEN 16383 ELSE 32767)
    ELSE -1

\* Mapper000.map_read; -1 is the "unmapped" sentinel.
Mapper000_map_read(mapper, address) ==
    IF 0 <= address /\ address <= 8191 THEN address
    ELSE IF 32768 <= address /\ address <= 65535
    THEN And(address, IF mapper.prg_banks > 1 THEN 32767 ELSE 16383)
    ELSE -1

\* Mapper000.map_write
Mapper000_map_write(mapper, address) ==
    IF 0 <= address /\ address <= 8191 /\ mapper.chr_banks = 0 THEN address
    ELSE IF 32768 <= address /\ address <= 65535
    THEN And(address, IF mapper.prg_banks > 1 THEN 32767 ELSE 16383)
    ELSE -1

\* Cartridge.read
Cartridge_read(cart, address) ==
    IF cart.mapper # None
    THEN Only({ IF mapped_address # -1 /\ 0 <= address /\ address <= 8191
                THEN ListGet(cart.chr_memory, mapped_address)
                ELSE IF mapped_address # -1 /\ 32768 <= address /\ address <= 65535
                THEN ListGet(cart.prg_memory, mapped_address)
                ELSE 0
              : mapped_address \in {Mapper000_map_read(cart.mapper, address)} })
    ELSE 0

\* Cartridge.read raises IndexError when the offset is past the end of the
\* list it indexes.
Cartridge_read_raises(cart, address) ==
    /\ cart.mapper # None
    /\ \E mapped_address \in {Mapper000_map_read(cart.mapper, address)} :
           /\ mapped_address # -1
           /\ \/ 0 <= address /\ address <= 8191 /\ mapped_address >= cart.chr_size
              \/ 32768 <= address /\ address <= 65535 /\ mapped_address >= cart.prg_size

\* Cartridge.write: with a mapper it calls map_write(address, data), which
\* takes one argument, so the call raises TypeError; without one it does
\* nothing.  The result is the exception raised.
Cartridge_write(cart, address, data) ==
    IF cart.mapper # None THEN TypeError ELSE None

(* ---------------------------- nes/ppu.py ------------------------------- *)

\* PPU.CONTROLLER.IM and PPU.STATUS.VB
CONTROLLER_IM ==
    4

STATUS_VB ==
    128

\* PPU.__init__.  2 * [1024 * [0x00]] and 2 * [4096 * [0x00]] each build ONE
\* inner list and a two-element outer list whose entries both refer to it:
\* lists holds the inner list objects, name_table and pattern_table the
\* references.
PPU_init ==
    [controller_reg |-> 0, mask_reg |-> 0, status_reg |-> 0,
     address_reg |-> 0, data_reg |-> 0,
     lists |-> [nt |-> ZeroList, pt |-> ZeroList],
     name_table |-> <<"nt", "nt">>,
     pattern_table |-> <<"pt", "pt">>,
     palette_table |-> ZeroList,
     frame_complete |-> FALSE,
     _cycles |-> 0, _scanline |-> 0, _clock_count |-> 0]

\* PPU.reset
PPU_reset(p) ==
    [p EXCEPT !.controller_reg = 0, !.mask_reg = 0, !.status_reg = 0,
              !.address_reg = 0, !.data_reg = 0,
              !._cycles = 0, !._scanline = 0]

\* A faulty PPU.clock that wraps the cycle counter one cycle late.
PPU_clock_late(p) ==
    [p EXCEPT !._clock_count = @ + 1,
              !._cycles = IF p._cycles + 1 > 341 THEN 0 ELSE p._cycles + 1,
              !._scanline = IF p._cycles + 1 > 341
                            THEN (IF p._scanline + 1 >= 261 THEN -1 ELSE p._scanline + 1)
                            ELSE @,
              !.frame_complete = IF p._cycles + 1 > 341 /\ p._scanline + 1 >= 261
                                 THEN TRUE ELSE @]

\* A faulty PPU.clock that ends the frame one scanline early.
PPU_clock_early(p) ==
    [p EXCEPT !._clock_count = @ + 1,
              !._cycles = IF p._cycles + 1 >= 341 THEN 0 ELSE p._cycles + 1,
              !._scanline = IF p._cycles + 1 >= 341
                            THEN (IF p._scanline + 1 >= 260 THEN -1 ELSE p._scanline + 1)
                            ELSE @,
              !.frame_complete = IF p._cycles + 1 >= 341 /\ p._scanline + 1 >= 260
                                 THEN TRUE ELSE @]

\* PPU.clock, but for the pixel it draws: the screen is not part of the
\* model.
PPU_clock(p) ==
    [p EXCEPT !._clock_count = @ + 1,
              !._cycles = IF p._cycles + 1 >= 341 THEN 0 ELSE p._cycles + 1,
              !._scanline = IF p._cycles + 1 >= 341
                            THEN (IF p._scanline + 1 >= 261 THEN -1 ELSE p._scanline + 1)
                            ELSE @,
              !.frame_complete = IF p._cycles + 1 >= 341 /\ p._scanline + 1 >= 261
                                 THEN TRUE ELSE @]

\* A faulty _set_flag that resets the whole register when it resets a flag.
PPU_set_flag_all(reg, flag, value) ==
    IF value THEN Or(reg, flag) ELSE 0

\* PPU._get_flag / PPU._set_flag on a register value.
PPU_get_flag(reg, flag) ==
    And(reg, flag) > 0

PPU_set_flag(reg, flag, value) ==
    Xor(reg, And(Xor(0 - BoolInt(value), reg), flag))

\* The nametable a (masked) nametable address selects, 0 or 1, or -1 when no
\* branch of the mirroring test matches.
NameTableIndex(mirror, address) ==
    IF mirror = HORIZONTAL
    THEN (IF 0 <= address /\ address <= 2047 THEN 0
          ELSE IF 2048 <= address /\ address <= 4095 THEN 1 ELSE -1)
    ELSE IF mirror = VERTICAL
    THEN (IF (0 <= address /\ address <= 1023) \/ (2048 <= address /\ address <= 3071) THEN 0
          ELSE IF (1024 <= address /\ address <= 2047) \/ (3072 <= address /\ address <= 4095) THEN 1
          ELSE -1)
    ELSE -1

PaletteIndex(address) ==
    Only({ IF a \in {16, 20, 24, 28} THEN And(a, 15) ELSE a : a \in {And(address, 31)} })

\* The nametable cell a (masked) nametable address selects under the
\* cartridge's mirroring: <<reference, offset>>.
NameTableCell(p, cart, a) ==
    <<p.name_table[NameTableIndex(cart.mirror, a) + 1], And(a, 1023)>>

\* PPU._read: a read from the picture unit's own bus.
PPU__read(p, cart, addr) ==
    Only({ IF 0 <= address /\ address <= 8191
           THEN ListGet(p.lists[p.pattern_table[Shr(And(address, 4096), 12) + 1]], And(address, 4095))
           ELSE IF 8192 <= address /\ address <= 16127 /\ cart # None
           THEN Only({ ListGet(p.lists[c[1]], c[2]) : c \in {NameTableCell(p, cart, And(address, 4095))} })
           ELSE IF 16128 <= address /\ address <= 16383
           THEN ListGet(p.palette_table, PaletteIndex(address))
           ELSE IF cart # None THEN Cartridge_read(cart, address) ELSE 0
         : address \in {And(addr, 16383)} })

\* PPU._write: a write to the picture unit's own bus.
PPU__write(p, cart, addr, data) ==
    Only({ IF 0 <= address /\ address <= 8191
           THEN [p EXCEPT !.lists[p.pattern_table[Shr(And(address, 4096), 12) + 1]] =
                              ListSet(@, And(address, 4095), data)]
           ELSE IF 8192 <= address /\ address <= 16127 /\ cart # None
           THEN Only({ [p EXCEPT !.lists[c[1]] = ListSet(@, c[2], data)]
                     : c \in {NameTableCell(p, cart, And(address, 4095))} })
           ELSE IF 16128 <= address /\ address <= 16383
           THEN [p EXCEPT !.palette_table = ListSet(@, PaletteIndex(address), data)]
           ELSE p
         : address \in {And(addr, 16383)} })

\* PPU.write: a write to one of the eight register ports.
PPU_write(p, cart, address, data) ==
    IF address = 0 THEN [p EXCEPT !.controller_reg = data]
    ELSE IF address = 1 THEN [p EXCEPT !.mask_reg = data]
    ELSE IF address = 7
    THEN [PPU__write(p, cart, p.address_reg, data) EXCEPT
              !.address_reg = @ + (IF PPU_get_flag(p.controller_reg, CONTROLLER_IM) THEN 32 ELSE 1)]
    ELSE p

\* PPU.read: a read of one of the eight register ports; the result is the
\* picture unit after the read and the value returned.
PPU_read(p, cart, address, read_only) ==
    IF address = 0 /\ read_only THEN [ppu |-> p, val |-> p.controller_reg]
    ELSE IF address = 1 /\ read_only THEN [ppu |-> p, val |-> p.mask_reg]
    ELSE IF address = 2
    THEN (IF read_only THEN [ppu |-> p, val |-> p.status_reg]
          ELSE [ppu |-> [p EXCEPT !.status_reg = PPU_set_flag(@, STATUS_VB, FALSE)],
                val |-> Or(And(p.status_reg, 224), And(p.data_reg, 31))])
    ELSE IF address = 7 /\ ~read_only
    THEN Only({ [ppu |-> [p EXCEPT !.data_reg = data,
                                   !.address_reg = @ + (IF PPU_get_flag(p.controller_reg, CONTROLLER_IM)
                                                        THEN 32 ELSE 1)],
                 val |-> IF p.address_reg >= 16128 THEN data ELSE p.data_reg]
              : data \in {PPU__read(p, cart, p.address_reg)} })
    ELSE [ppu |-> p, val |-> 0]

(* ---------------------------- nes/bus.py ------------------------------- *)

\* The machine an operation runs on: the processor's registers and helper
\* variables, the bus's RAM, the picture unit and the cartridge; log is the
\* sequence of bus accesses the operation has made, val the value its last
\* bus read returned and ret the return value of its last call.

\* A faulty Bus.write that mirrors RAM every 4 kilobytes.
Bus_write_4k(w, address, data) ==
    [w EXCEPT !.log = Append(@, <<"w", address, data>>),
              !.ram = IF 0 <= address /\ address <= 8191
                      THEN ListSet(@, And(address, 4095), data) ELSE @,
              !.ppu = IF 8192 <= address /\ address <= 16383
                      THEN PPU_write(@, w.cart, And(address, 7), data) ELSE @,
              !.exc = IF (address < 0 \/ address > 16383) /\ w.cart # None
                      THEN Cartridge_write(w.cart, address, data) ELSE @]

\* A faulty Bus.write that takes every address outside the picture unit's
\* window for a RAM address.
Bus_write_ram_else(w, address, data) ==
    [w EXCEPT !.log = Append(@, <<"w", address, data>>),
              !.ram = IF 8192 <= address /\ address <= 16383
                      THEN @ ELSE ListSet(@, And(address, 2047), data),
              !.ppu = IF 8192 <= address /\ address <= 16383
                      THEN PPU_write(@, w.cart, And(address, 7), data) ELSE @]

\* Bus.write
Bus_write(w, address, data) ==
    [w EXCEPT !.log = Append(@, <<"w", address, data>>),
              !.ram = IF 0 <= address /\ address <= 8191
                      THEN ListSet(@, And(address, 2047), data) ELSE @,
              !.ppu = IF 8192 <= address /\ address <= 16383
                      THEN PPU_write(@, w.cart, And(address, 7), data) ELSE @,
              !.exc = IF (address < 0 \/ address > 16383) /\ w.cart # None
                      THEN Cartridge_write(w.cart, address, data) ELSE @]

\* A faulty Bus.read that mirrors the picture unit's ports every 16 bytes.
Bus_read_result_16(w, address, read_only) ==
    IF 0 <= address /\ address <= 8191
    THEN [ppu |-> w.ppu, val |-> ListGet(w.ram, And(address, 2047))]
    ELSE IF 8192 <= address /\ address <= 16383
    THEN PPU_read(w.ppu, w.cart, And(address, 15), read_only)
    ELSE [ppu |-> w.ppu, val |-> IF w.cart # None THEN Cartridge_read(w.cart, address) ELSE 0]

\* The value a Bus.read returns and the picture unit it leaves.
Bus_read_result(w, address, read_only) ==
    IF 0 <= address /\ address <= 8191
    THEN [ppu |-> w.ppu, val |-> ListGet(w.ram, And(address, 2047))]
    ELSE IF 8192 <= address /\ address <= 16383
    THEN PPU_read(w.ppu, w.cart, And(address, 7), read_only)
    ELSE [ppu |-> w.ppu, val |-> IF w.cart # None THEN Cartridge_read(w.cart, address) ELSE 0]

\* Bus.read raises what the cartridge's read raises.
Bus_read_raises(w, address) ==
    /\ address < 0 \/ address > 16383
    /\ w.cart # None
    /\ Cartridge_read_raises(w.cart, address)

\* Bus.read
Bus_read(w, address, read_only) ==
    Only({ [w EXCEPT !.ppu = r.ppu, !.val = r.val, !.log = Append(@, <<"r", address, r.val>>),
                     !.exc = IF Bus_read_raises(w, address) THEN IndexError ELSE @]
         : r \in {Bus_read_result(w, address, read_only)} })

(* ---------------------------- nes/cpu.py ------------------------------- *)

\* CPU.FLAGS
FLAGS_C ==
    1

FLAGS_Z ==
    2

FLAGS_I ==
    4

FLAGS_D ==
    8

FLAGS_B ==
    16

FLAGS_U ==
    32

FLAGS_V ==
    64

FLAGS_N ==
    128

\* CPU.__init__: the registers and helper variables at power-up.
CPU_init ==
    [a_reg |-> 0, x_reg |-> 0, y_reg |-> 0, sp_reg |-> 253, pc_reg |-> 0,
     status_reg |-> 52,
     _address |-> 0, _opcode |-> 0, _cycles |-> 0, _clock_count |-> 0]

\* CPU._get_flag
_get_flag(w, flag) ==
    And(w.status_reg, flag) > 0

\* CPU._set_flag: status_reg ^= (-value ^ status_reg) & flag
_set_flag(w, flag, value) ==
    [w EXCEPT !.status_reg = Xor(@, And(Xor(0 - BoolInt(value), @), flag))]

\* CPU._read (read_only defaults to False) and CPU._write
_read(w, address) ==
    Bus_read(w, address, FALSE)

_write(w, address, value) ==
    Bus_write(w, address, value)

\* A faulty SetZN that also clears Carry.
SetZN_clearC(w, v) ==
    _set_flag(_set_flag(_set_flag(w, FLAGS_Z, v = 0), FLAGS_N, And(v, 128) > 0), FLAGS_C, FALSE)

\* The Zero and Negative flags as every load, transfer and arithmetic
\* operation sets them from its result v.
SetZN(w, v) ==
    _set_flag(_set_flag(w, FLAGS_Z, v = 0), FLAGS_N, And(v, 128) > 0)

(* Addressing modes: each leaves its extra-cycle signal in ret. *)

_IMP(w) ==
    [w EXCEPT !.ret = 0]

_ACC(w) ==
    [w EXCEPT !.ret = 0]

_IMM(w) ==
    [w EXCEPT !._address = w.pc_reg, !.pc_reg = @ + 1, !.ret = 0]

_ZP0(w) ==
    Only({ [r EXCEPT !._address = And(r.val, 255), !.pc_reg = @ + 1, !.ret = 0]
         : r \in {_read(w, w.pc_reg)} })

_ZPX(w) ==
    Only({ [r EXCEPT !._address = And(r.val + r.x_reg, 255), !.pc_reg = @ + 1, !.ret = 0]
         : r \in {_read(w, w.pc_reg)} })

_ZPY(w) ==
    Only({ [r EXCEPT !._address = And(r.val + r.y_reg, 255), !.pc_reg = @ + 1, !.ret = 0]
         : r \in {_read(w, w.pc_reg)} })

\* The operand byte of a branch as _REL extends it: 0xFF00 is or-ed in when
\* bit 7 is set.
SignExtend(v) ==
    IF And(v, 128) # 0 THEN Or(v, 65280) ELSE v

\* _REL after its pc_reg += 1: the target is pc_reg plus the extended operand.
RelTarget(w, a) ==
    [w EXCEPT !._address = a,
              !.ret = IF And(a, 65280) # And(w.pc_reg, 65280) THEN 2 ELSE 1]

_REL(w) ==
    Only({ RelTarget(r, SignExtend(r.val) + r.pc_reg)
         : r \in {[_read(w, w.pc_reg) EXCEPT !.pc_reg = @ + 1]} })

\* One operand byte read at PC into the high byte of _address, as the second
\* read of _ABS, _ABX, _ABY and _IND does.
OperandHigh(w) ==
    Only({ [r EXCEPT !._address = Or(@, Shl(r.val, 8)), !.pc_reg = @ + 1]
         : r \in {_read(w, w.pc_reg)} })

\* The two operand bytes at PC, low byte first, as _ABS, _ABX, _ABY and
\* _IND read them; the result has the 16-bit operand in _address.
Operand16(w) ==
    OperandHigh(Only({ [r EXCEPT !._address = r.val, !.pc_reg = @ + 1]
                     : r \in {_read(w, w.pc_reg)} }))

_ABS(w) ==
    [Operand16(w) EXCEPT !.ret = 0]

\* A faulty AddIndex that never signals the page cross.
AddIndex_silent(w, index) ==
    [w EXCEPT !._address = w._address + index, !.ret = 0]

\* The tail shared by _ABX, _ABY and _IZY: add the index to the address and
\* signal 1 when the high byte changed.
AddIndex(w, index) ==
    Only({ [w EXCEPT !._address = a, !.ret = IF And(a, 65280) # And(w._address, 65280) THEN 1 ELSE 0]
         : a \in {w._address + index} })

_ABX(w) ==
    Only({ AddIndex(o, o.x_reg) : o \in {Operand16(w)} })

_ABY(w) ==
    Only({ AddIndex(o, o.y_reg) : o \in {Operand16(w)} })

\* A faulty Pointer16 that always reads the high byte at ptr + 1.
Pointer16_linear(w, ptr) ==
    Only({ Only({ [r2 EXCEPT !._address = Or(r1.val, Shl(r2.val, 8))]
                : r2 \in {_read(r1, ptr + 1)} })
         : r1 \in {_read(w, ptr)} })

\* The pointer's two bytes as _IND reads them: the high byte comes from the
\* start of the pointer's page when the pointer's low byte is 0xFF.
Pointer16(w, ptr) ==
    Only({ Only({ [r2 EXCEPT !._address = Or(r1.val, Shl(r2.val, 8))]
                : r2 \in {_read(r1, IF And(ptr, 255) = 255 THEN And(ptr, 65280) ELSE ptr + 1)} })
         : r1 \in {_read(w, ptr)} })

\* _IND keeps the pointer in a local; _address is assigned once, at the end.
_IND(w) ==
    Only({ [Pointer16([o EXCEPT !._address = w._address], o._address) EXCEPT !.ret = 0]
         : o \in {Operand16(w)} })

\* A faulty ZeroPagePointer that reads the high byte in page 1 when the low
\* byte is at 0x00FF.
ZeroPagePointer_linear(w, ptr) ==
    Only({ Only({ [r2 EXCEPT !._address = Or(r1.val, Shl(r2.val, 8))]
                : r2 \in {_read(r1, And(ptr, 255) + 1)} })
         : r1 \in {_read(w, And(ptr, 255))} })

\* The 2-byte pointer _IZX and _IZY read from page 0 at ptr and ptr + 1.
ZeroPagePointer(w, ptr) ==
    Only({ Only({ [r2 EXCEPT !._address = Or(r1.val, Shl(r2.val, 8))]
                : r2 \in {_read(r1, And(ptr + 1, 255))} })
         : r1 \in {_read(w, And(ptr, 255))} })

_IZX(w) ==
    Only({ [ZeroPagePointer([r EXCEPT !.pc_reg = @ + 1], r.val + r.x_reg) EXCEPT !.ret = 0]
         : r \in {_read(w, w.pc_reg)} })

_IZY(w) ==
    Only({ Only({ AddIndex(q, q.y_reg) : q \in {ZeroPagePointer([r EXCEPT !.pc_reg = @ + 1], r.val)} })
         : r \in {_read(w, w.pc_reg)} })

(* The opcode table: <<name, operate, address_mode, cycles>> for each of   *)
(* the 256 opcode bytes, in the order of CPU._lookup.                      *)
Lookup ==
    <<
       <<"BRK", "_BRK", "_IMM", 7>>, <<"ORA", "_ORA", "_IZX", 6>>, <<"???", "_XXX", "_IMP", 2>>, <<"???", "_XXX", "_IMP", 8>>,
       <<"???", "_NOP", "_IMP", 3>>, <<"ORA", "_ORA", "_ZP0", 3>>, <<"ASL", "_ASL", "_ZP0", 5>>, <<"???", "_XXX", "_IMP", 5>>,
       <<"PHP", "_PHP", "_IMP", 3>>, <<"ORA", "_ORA", "_IMM", 2>>, <<"ASL", "_ASL", "_ACC", 2>>, <<"???", "_XXX", "_IMP", 2>>,
       <<"???", "_NOP", "_IMP", 4>>, <<"ORA", "_ORA", "_ABS", 4>>, <<"ASL", "_ASL", "_ABS", 6>>, <<"???", "_XXX", "_IMP", 6>>,
       <<"BPL", "_BPL", "_REL", 2>>, <<"ORA", "_ORA", "_IZY", 5>>, <<"???", "_XXX", "_IMP", 2>>, <<"???", "_XXX", "_IMP", 8>>,
       <<"???", "_NOP", "_IMP", 4>>, <<"ORA", "_ORA", "_ZPX", 4>>, <<"ASL", "_ASL", "_ZPX", 6>>, <<"???", "_XXX", "_IMP", 6>>,
       <<"CLC", "_CLC", "_IMP", 2>>, <<"ORA", "_ORA", "_ABY", 4>>, <<"???", "_NOP", "_IMP", 2>>, <<"???", "_XXX", "_IMP", 7>>,
       <<"???", "_NOP", "_IMP", 4>>, <<"ORA", "_ORA", "_ABX", 4>>, <<"ASL", "_ASL", "_ABX", 7>>, <<"???", "_XXX", "_IMP", 7>>,
       <<"JSR", "_JSR", "_ABS", 6>>, <<"AND", "_AND", "_IZX", 6>>, <<"???", "_XXX", "_IMP", 2>>, <<"???", "_XXX", "_IMP", 8>>,
       <<"BIT", "_BIT", "_ZP0", 3>>, <<"AND", "_AND", "_ZP0", 3>>, <<"ROL", "_ROL", "_ZP0", 5>>, <<"???", "_XXX", "_IMP", 5>>,
       <<"PLP", "_PLP", "_IMP", 4>>, <<"AND", "_AND", "_IMM", 2>>, <<"ROL", "_ROL", "_ACC", 2>>, <<"???", "_XXX", "_IMP", 2>>,
       <<"BIT", "_BIT", "_ABS", 4>>, <<"AND", "_AND", "_ABS", 4>>, <<"ROL", "_ROL", "_ABS", 6>>, <<"???", "_XXX", "_IMP", 6>>,
       <<"BMI", "_BMI", "_REL", 2>>, <<"AND", "_AND", "_IZY", 5>>, <<"???", "_XXX", "_IMP", 2>>, <<"???", "_XXX", "_IMP", 8>>,
       <<"???", "_NOP", "_IMP", 4>>, <<"AND", "_AND", "_ZPX", 4>>, <<"ROL", "_ROL", "_ZPX", 6>>, <<"???", "_XXX", "_IMP", 6>>,
       <<"SEC", "_SEC", "_IMP", 2>>, <<"AND", "_AND", "_ABY", 4>>, <<"???", "_NOP", "_IMP", 2>>, <<"???", "_XXX", "_IMP", 7>>,
       <<"???", "_NOP", "_IMP", 4>>, <<"AND", "_AND", "_ABX", 4>>, <<"ROL", "_ROL", "_ABX", 7>>, <<"???", "_XXX", "_IMP", 7>>,
       <<"RTI", "_RTI", "_IMP", 6>>, <<"EOR", "_EOR", "_IZX", 6>>, <<"???", "_XXX", "_IMP", 2>>, <<"???", "_XXX", "_IMP", 8>>,
       <<"???", "_NOP", "_IMP", 3>>, <<"EOR", "_EOR", "_ZP0", 3>>, <<"LSR", "_LSR", "_ZP0", 5>>, <<"???", "_XXX", "_IMP", 5>>,
       <<"PHA", "_PHA", "_IMP", 3>>, <<"EOR", "_EOR", "_IMM", 2>>, <<"LSR", "_LSR", "_ACC", 2>>, <<"???", "_XXX", "_IMP", 2>>,
       <<"JMP", "_JMP", "_ABS", 3>>, <<"EOR", "_EOR", "_ABS", 4>>, <<"LSR", "_LSR", "_ABS", 6>>, <<"???", "_XXX", "_IMP", 6>>,
       <<"BVC", "_BVC", "_REL", 2>>, <<"EOR", "_EOR", "_IZY", 5>>, <<"???", "_XXX", "_IMP", 2>>, <<"???", "_XXX", "_IMP", 8>>,
       <<"???", "_NOP", "_IMP", 4>>, <<"EOR", "_EOR", "_ZPX", 4>>, <<"LSR", "_LSR", "_ZPX", 6>>, <<"???", "_XXX", "_IMP", 6>>,
       <<"CLI", "_CLI", "_IMP", 2>>, <<"EOR", "_EOR", "_ABY", 4>>, <<"???", "_NOP", "_IMP", 2>>, <<"???", "_XXX", "_IMP", 7>>,
       <<"???", "_NOP", "_IMP", 4>>, <<"EOR", "_EOR", "_ABX", 4>>, <<"LSR", "_LSR", "_ABX", 7>>, <<"???", "_XXX", "_IMP", 7>>,
       <<"RTS", "_RTS", "_IMP", 6>>, <<"ADC", "_ADC", "_IZX", 6>>, <<"???", "_XXX", "_IMP", 2>>, <<"???", "_XXX", "_IMP", 8>>,
       <<"???", "_NOP", "_IMP", 3>>, <<"ADC", "_ADC", "_ZP0", 3>>, <<"ROR", "_ROR", "_ZP0", 5>>, <<"???", "_XXX", "_IMP", 5>>,
       <<"PLA", "_PLA", "_IMP", 4>>, <<"ADC", "_ADC", "_IMM", 2>>, <<"ROR", "_ROR", "_ACC", 2>>, <<"???", "_XXX", "_IMP", 2>>,
       <<"JMP", "_JMP", "_IND", 5>>, <<"ADC", "_ADC", "_ABS", 4>>, <<"ROR", "_ROR", "_ABS", 6>>, <<"???", "_XXX", "_IMP", 6>>,
       <<"BVS", "_BVS", "_REL", 2>>, <<"ADC", "_ADC", "_IZY", 5>>, <<"???", "_XXX", "_IMP", 2>>, <<"???", "_XXX", "_IMP", 8>>,
       <<"???", "_NOP", "_IMP", 4>>, <<"ADC", "_ADC", "_ZPX", 4>>, <<"ROR", "_ROR", "_ZPX", 6>>, <<"???", "_XXX", "_IMP", 6>>,
       <<"SEI", "_SEI", "_IMP", 2>>, <<"ADC", "_ADC", "_ABY", 4>>, <<"???", "_NOP", "_IMP", 2>>, <<"???", "_XXX", "_IMP", 7>>,
       <<"???", "_NOP", "_IMP", 4>>, <<"ADC", "_ADC", "_ABX", 4>>, <<"ROR", "_ROR", "_ABX", 7>>, <<"???", "_XXX", "_IMP", 7>>,
       <<"???", "_NOP", "_IMP", 2>>, <<"STA", "_STA", "_IZX", 6>>, <<"???", "_NOP", "_IMP", 2>>, <<"???", "_XXX", "_IMP", 6>>,
       <<"STY", "_STY", "_ZP0", 3>>, <<"STA", "_STA", "_ZP0", 3>>, <<"STX", "_STX", "_ZP0", 3>>, <<"???", "_XXX", "_IMP", 3>>,
       <<"DEY", "_DEY", "_IMP", 2>>, <<"???", "_NOP", "_IMP", 2>>, <<"TXA", "_TXA", "_IMP", 2>>, <<"???", "_XXX", "_IMP", 2>>,
       <<"STY", "_STY", "_ABS", 4>>, <<"STA", "_STA", "_ABS", 4>>, <<"STX", "_STX", "_ABS", 4>>, <<"???", "_XXX", "_IMP", 4>>,
       <<"BCC", "_BCC", "_REL", 2>>, <<"STA", "_STA", "_IZY", 6>>, <<"???", "_XXX", "_IMP", 2>>, <<"???", "_XXX", "_IMP", 6>>,
       <<"STY", "_STY", "_ZPX", 4>>, <<"STA", "_STA", "_ZPX", 4>>, <<"STX", "_STX", "_ZPY", 4>>, <<"???", "_XXX", "_IMP", 4>>,
       <<"TYA", "_TYA", "_IMP", 2>>, <<"STA", "_STA", "_ABY", 5>>, <<"TXS", "_TXS", "_IMP", 2>>, <<"???", "_XXX", "_IMP", 5>>,
       <<"???", "_NOP", "_IMP", 5>>, <<"STA", "_STA", "_ABX", 5>>, <<"???", "_XXX", "_IMP", 5>>, <<"???", "_XXX", "_IMP", 5>>,
       <<"LDY", "_LDY", "_IMM", 2>>, <<"LDA", "_LDA", "_IZX", 6>>, <<"LDX", "_LDX", "_IMM", 2>>, <<"???", "_XXX", "_IMP", 6>>,
       <<"LDY", "_LDY", "_ZP0", 3>>, <<"LDA", "_LDA", "_ZP0", 3>>, <<"LDX", "_LDX", "_ZP0", 3>>, <<"???", "_XXX", "_IMP", 3>>,
       <<"TAY", "_TAY", "_IMP", 2>>, <<"LDA", "_LDA", "_IMM", 2>>, <<"TAX", "_TAX", "_IMP", 2>>, <<"???", "_XXX", "_IMP", 2>>,
       <<"LDY", "_LDY", "_ABS", 4>>, <<"LDA", "_LDA", "_ABS", 4>>, <<"LDX", "_LDX", "_ABS", 4>>, <<"???", "_XXX", "_IMP", 4>>,
       <<"BCS", "_BCS", "_REL", 2>>, <<"LDA", "_LDA", "_IZY", 5>>, <<"???", "_XXX", "_IMP", 2>>, <<"???", "_XXX", "_IMP", 5>>,
       <<"LDY", "_LDY", "_ZPX", 4>>, <<"LDA", "_LDA", "_ZPX", 4>>, <<"LDX", "_LDX", "_ZPY", 4>>, <<"???", "_XXX", "_IMP", 4>>,
       <<"CLV", "_CLV", "_IMP", 2>>, <<"LDA", "_LDA", "_ABY", 4>>, <<"TSX", "_TSX", "_IMP", 2>>, <<"???", "_XXX", "_IMP", 4>>,
       <<"LDY", "_LDY", "_ABX", 4>>, <<"LDA", "_LDA", "_ABX", 4>>, <<"LDX", "_LDX", "_ABY", 4>>, <<"???", "_XXX", "_IMP", 4>>,
       <<"CPY", "_CPY", "_IMM", 2>>, <<"CMP", "_CMP", "_IZX", 6>>, <<"???", "_NOP", "_IMP", 2>>, <<"???", "_XXX", "_IMP", 8>>,
       <<"CPY", "_CPY", "_ZP0", 3>>, <<"CMP", "_CMP", "_ZP0", 3>>, <<"DEC", "_DEC", "_ZP0", 5>>, <<"???", "_XXX", "_IMP", 5>>,
       <<"INY", "_INY", "_IMP", 2>>, <<"CMP", "_CMP", "_IMM", 2>>, <<"DEX", "_DEX", "_IMP", 2>>, <<"???", "_XXX", "_IMP", 2>>,
       <<"CPY", "_CPY", "_ABS", 4>>, <<"CMP", "_CMP", "_ABS", 4>>, <<"DEC", "_DEC", "_ABS", 6>>, <<"???", "_XXX", "_IMP", 6>>,
       <<"BNE", "_BNE", "_REL", 2>>, <<"CMP", "_CMP", "_IZY", 5>>, <<"???", "_XXX", "_IMP", 2>>, <<"???", "_XXX", "_IMP", 8>>,
       <<"???", "_NOP", "_IMP", 4>>, <<"CMP", "_CMP", "_ZPX", 4>>, <<"DEC", "_DEC", "_ZPX", 6>>, <<"???", "_XXX", "_IMP", 6>>,
       <<"CLD", "_CLD", "_IMP", 2>>, <<"CMP", "_CMP", "_ABY", 4>>, <<"NOP", "_NOP", "_IMP", 2>>, <<"???", "_XXX", "_IMP", 7>>,
       <<"???", "_NOP", "_IMP", 4>>, <<"CMP", "_CMP", "_ABX", 4>>, <<"DEC", "_DEC", "_ABX", 7>>, <<"???", "_XXX", "_IMP", 7>>,
       <<"CPX", "_CPX", "_IMM", 2>>, <<"SBC", "_SBC", "_IZX", 6>>, <<"???", "_NOP", "_IMP", 2>>, <<"???", "_XXX", "_IMP", 8>>,
       <<"CPX", "_CPX", "_ZP0", 3>>, <<"SBC", "_SBC", "_ZP0", 3>>, <<"INC", "_INC", "_ZP0", 5>>, <<"???", "_XXX", "_IMP", 5>>,
       <<"INX", "_INX", "_IMP", 2>>, <<"SBC", "_SBC", "_IMM", 2>>, <<"NOP", "_NOP", "_IMP", 2>>, <<"???", "_SBC", "_IMP", 2>>,
       <<"CPX", "_CPX", "_ABS", 4>>, <<"SBC", "_SBC", "_ABS", 4>>, <<"INC", "_INC", "_ABS", 6>>, <<"???", "_XXX", "_IMP", 6>>,
       <<"BEQ", "_BEQ", "_REL", 2>>, <<"SBC", "_SBC", "_IZY", 5>>, <<"???", "_XXX", "_IMP", 2>>, <<"???", "_XXX", "_IMP", 8>>,
       <<"???", "_NOP", "_IMP", 4>>, <<"SBC", "_SBC", "_ZPX", 4>>, <<"INC", "_INC", "_ZPX", 6>>, <<"???", "_XXX", "_IMP", 6>>,
       <<"SED", "_SED", "_IMP", 2>>, <<"SBC", "_SBC", "_ABY", 4>>, <<"NOP", "_NOP", "_IMP", 2>>, <<"???", "_XXX", "_IMP", 7>>,
       <<"???", "_NOP", "_IMP", 4>>, <<"SBC", "_SBC", "_ABX", 4>>, <<"INC", "_INC", "_ABX", 7>>, <<"???", "_XXX", "_IMP", 7>>
    >>

\* self._lookup[opcode]: Python indexes a 256-element list by -256..255.
LookupIndexable(opcode) ==
    -256 <= opcode /\ opcode <= 255

LookupAt(opcode) ==
    Lookup[(IF opcode < 0 THEN opcode + 256 ELSE opcode) + 1]

\* self._lookup[self._opcode].address_mode == self._ACC
a_mode(w) ==
    LookupAt(w._opcode)[3] = "_ACC"

(* Statement sequences the instructions and entry points repeat. *)

\* self._write(0x0100 + self.sp_reg, v); self.sp_reg -= 1
Push(w, v) ==
    [_write(w, 256 + w.sp_reg, v) EXCEPT !.sp_reg = @ - 1]

\* A faulty PushHigh that pushes pc_reg >> 8 without the 0x00FF mask.
PushHigh_unmasked(w) ==
    Push(w, Shr(w.pc_reg, 8))

\* A faulty PushHigh that pushes the low byte of PC.
PushHigh_low(w) ==
    Push(w, And(w.pc_reg, 255))

\* Push of (pc_reg >> 8) & 0x00FF, of pc_reg & 0x00FF and of status_reg.
PushHigh(w) ==
    Push(w, And(Shr(w.pc_reg, 8), 255))

PushLow(w) ==
    Push(w, And(w.pc_reg, 255))

PushStatus(w) ==
    Push(w, w.status_reg)

\* self.sp_reg += 1; self._read(0x0100 + self.sp_reg)
Pull(w) ==
    _read([w EXCEPT !.sp_reg = @ + 1], 256 + w.sp_reg + 1)

\* self.pc_reg = <read>  and  self.pc_reg |= <read> << 8, on the machine r
\* the read left.
SetPCLow(r) ==
    [r EXCEPT !.pc_reg = r.val]

SetPCHigh(r) ==
    [r EXCEPT !.pc_reg = Or(@, Shl(r.val, 8))]

\* A faulty LoadVector that clears the vector's low byte before reading it.
LoadVector_writing(w, vector) ==
    SetPCHigh(_read(SetPCLow(_read(_write(w, vector, 0), vector)), vector + 1))

\* pc_reg = read(vector); pc_reg |= read(vector + 1) << 8
LoadVector(w, vector) ==
    SetPCHigh(_read(SetPCLow(_read(w, vector)), vector + 1))

\* The Zero and Negative flags set from the new value of a register.
SetA(w, v) ==
    SetZN([w EXCEPT !.a_reg = v], v)

SetX(w, v) ==
    SetZN([w EXCEPT !.x_reg = v], v)

SetY(w, v) ==
    SetZN([w EXCEPT !.y_reg = v], v)

(* Instructions: each leaves its extra-cycle signal in ret. *)

\* A faulty sum that leaves the carry flag out of it.
AddWithCarry_carryless(w, m) ==
    Only({ [SetA(_set_flag(_set_flag(w, FLAGS_C, temp > 255), FLAGS_V,
                           And(And(Not(Xor(w.a_reg, m)), Xor(w.a_reg, temp)), 128) > 0),
                 And(temp, 255)) EXCEPT !.ret = 1]
         : temp \in {w.a_reg + m} })

\* The sum shared by _ADC (operand m) and _SBC (operand m ^ 0xFF).
AddWithCarry(w, m) ==
    Only({ [SetA(_set_flag(_set_flag(w, FLAGS_C, temp > 255), FLAGS_V,
                           And(And(Not(Xor(w.a_reg, m)), Xor(w.a_reg, temp)), 128) > 0),
                 And(temp, 255)) EXCEPT !.ret = 1]
         : temp \in {w.a_reg + m + BoolInt(_get_flag(w, FLAGS_C))} })

_ADC(w) ==
    Only({ AddWithCarry(r, r.val) : r \in {_read(w, w._address)} })

_SBC(w) ==
    Only({ AddWithCarry(r, Xor(r.val, 255)) : r \in {_read(w, w._address)} })

_AND(w) ==
    Only({ [SetA(r, And(r.a_reg, r.val)) EXCEPT !.ret = 1] : r \in {_read(w, w._address)} })

_ORA(w) ==
    Only({ [SetA(r, Or(r.a_reg, r.val)) EXCEPT !.ret = 1] : r \in {_read(w, w._address)} })

_EOR(w) ==
    Only({ [SetA(r, Xor(r.a_reg, r.val)) EXCEPT !.ret = 1] : r \in {_read(w, w._address)} })

\* m = self.a_reg if a_mode else self._read(self._address)
ShiftOperand(w) ==
    IF a_mode(w) THEN [w EXCEPT !.val = w.a_reg] ELSE _read(w, w._address)

\* if a_mode: self.a_reg = m  else: self._write(self._address, m)
ShiftStore(w, m) ==
    [(IF a_mode(w) THEN [w EXCEPT !.a_reg = m] ELSE _write(w, w._address, m)) EXCEPT !.ret = 0]

\* The tail of the four shifts: the carry, then Z and N from the masked
\* result m, then the store.
ShiftFinish(w, carry, m) ==
    ShiftStore(SetZN(_set_flag(w, FLAGS_C, carry), m), m)

\* m << 1  and  (m << 1) | C
_ASL(w) ==
    Only({ ShiftFinish(r, And(Shl(r.val, 1), 65280) > 0, And(Shl(r.val, 1), 255))
         : r \in {ShiftOperand(w)} })

_LSR(w) ==
    Only({ ShiftFinish(r, And(r.val, 1) > 0, And(Shr(r.val, 1), 255))
         : r \in {ShiftOperand(w)} })

_ROL(w) ==
    Only({ Only({ ShiftFinish(r, And(m, 65280) > 0, And(m, 255))
                : m \in {Or(Shl(r.val, 1), BoolInt(_get_flag(r, FLAGS_C)))} })
         : r \in {ShiftOperand(w)} })

_ROR(w) ==
    Only({ ShiftFinish(r, And(r.val, 1) > 0,
                       And(Or(Shl(BoolInt(_get_flag(r, FLAGS_C)), 7), Shr(r.val, 1)), 255))
         : r \in {ShiftOperand(w)} })

\* The body shared by the eight conditional branches.
Branch(w, taken) ==
    IF taken THEN [w EXCEPT !.pc_reg = w._address, !.ret = 2] ELSE [w EXCEPT !.ret = 0]

_BCC(w) ==
    Branch(w, ~_get_flag(w, FLAGS_C))

_BCS(w) ==
    Branch(w, _get_flag(w, FLAGS_C))

_BEQ(w) ==
    Branch(w, _get_flag(w, FLAGS_Z))

_BMI(w) ==
    Branch(w, _get_flag(w, FLAGS_N))

_BNE(w) ==
    Branch(w, ~_get_flag(w, FLAGS_Z))

_BPL(w) ==
    Branch(w, ~_get_flag(w, FLAGS_N))

_BVC(w) ==
    Branch(w, ~_get_flag(w, FLAGS_V))

_BVS(w) ==
    Branch(w, _get_flag(w, FLAGS_V))

_BIT(w) ==
    Only({ [_set_flag(_set_flag(_set_flag(r, FLAGS_Z, And(r.a_reg, r.val) = 0),
                                FLAGS_V, And(r.val, 64) > 0),
                      FLAGS_N, And(r.val, 128) > 0) EXCEPT !.ret = 0]
         : r \in {_read(w, w._address)} })

_BRK(w) ==
    [LoadVector(PushStatus(_set_flag(PushLow(PushHigh([w EXCEPT !.pc_reg = @ + 1])),
                                     FLAGS_B, TRUE)),
                65534) EXCEPT !.ret = 0]

_CLC(w) ==
    [_set_flag(w, FLAGS_C, FALSE) EXCEPT !.ret = 0]

_CLD(w) ==
    [_set_flag(w, FLAGS_D, FALSE) EXCEPT !.ret = 0]

_CLI(w) ==
    [_set_flag(w, FLAGS_I, FALSE) EXCEPT !.ret = 0]

_CLV(w) ==
    [_set_flag(w, FLAGS_V, FALSE) EXCEPT !.ret = 0]

_SEC(w) ==
    [_set_flag(w, FLAGS_C, TRUE) EXCEPT !.ret = 0]

_SED(w) ==
    [_set_flag(w, FLAGS_D, TRUE) EXCEPT !.ret = 0]

_SEI(w) ==
    [_set_flag(w, FLAGS_I, TRUE) EXCEPT !.ret = 0]

\* The body shared by _CMP, _CPX and _CPY on register value reg.
Compare(w, reg) ==
    Only({ SetZN(_set_flag(r, FLAGS_C, reg >= r.val), And(reg - r.val, 255))
         : r \in {_read(w, w._address)} })

_CMP(w) ==
    [Compare(w, w.a_reg) EXCEPT !.ret = 1]

_CPX(w) ==
    [Compare(w, w.x_reg) EXCEPT !.ret = 0]

_CPY(w) ==
    [Compare(w, w.y_reg) EXCEPT !.ret = 0]

\* The write-back and flags shared by _DEC and _INC.
StoreZN(w, m) ==
    [SetZN(_write(w, w._address, m), m) EXCEPT !.ret = 0]

_DEC(w) ==
    Only({ StoreZN(r, And(r.val - 1, 255)) : r \in {_read(w, w._address)} })

_INC(w) ==
    Only({ StoreZN(r, And(r.val + 1, 255)) : r \in {_read(w, w._address)} })

_DEX(w) ==
    [SetX(w, And(w.x_reg - 1, 255)) EXCEPT !.ret = 0]

_DEY(w) ==
    [SetY(w, And(w.y_reg - 1, 255)) EXCEPT !.ret = 0]

_INX(w) ==
    [SetX(w, And(w.x_reg + 1, 255)) EXCEPT !.ret = 0]

_INY(w) ==
    [SetY(w, And(w.y_reg + 1, 255)) EXCEPT !.ret = 0]

_JMP(w) ==
    [w EXCEPT !.pc_reg = w._address, !.ret = 0]

_JSR(w) ==
    [PushLow(PushHigh([w EXCEPT !.pc_reg = @ - 1])) EXCEPT !.pc_reg = w._address, !.ret = 0]

_LDA(w) ==
    Only({ [SetA(r, r.val) EXCEPT !.ret = 1] : r \in {_read(w, w._address)} })

_LDX(w) ==
    Only({ [SetX(r, r.val) EXCEPT !.ret = 1] : r \in {_read(w, w._address)} })

_LDY(w) ==
    Only({ [SetY(r, r.val) EXCEPT !.ret = 1] : r \in {_read(w, w._address)} })

_NOP(w) ==
    [w EXCEPT !.ret = 0]

_PHA(w) ==
    [Push(w, w.a_reg) EXCEPT !.ret = 0]

_PHP(w) ==
    [PushStatus(w) EXCEPT !.ret = 0]

_PLA(w) ==
    Only({ [SetA(r, r.val) EXCEPT !.ret = 0] : r \in {Pull(w)} })

\* self.status_reg = <pull>, on the machine r the pull left.
SetStatus(r) ==
    [r EXCEPT !.status_reg = r.val]

_PLP(w) ==
    [SetStatus(Pull(w)) EXCEPT !.ret = 0]

\* pc_reg = pull; pc_reg |= pull << 8, as _RTI and _RTS end.
PullPC(w) ==
    SetPCHigh(Pull(SetPCLow(Pull(w))))

_RTI(w) ==
    [PullPC(SetStatus(Pull(w))) EXCEPT !.ret = 0]

_RTS(w) ==
    [PullPC(w) EXCEPT !.pc_reg = @ + 1, !.ret = 0]

\* A faulty _STA that accepts the page-cross cycle.
_STA_penalty(w) ==
    [_write(w, w._address, w.a_reg) EXCEPT !.ret = 1]

_STA(w) ==
    [_write(w, w._address, w.a_reg) EXCEPT !.ret = 0]

_STX(w) ==
    [_write(w, w._address, w.x_reg) EXCEPT !.ret = 0]

_STY(w) ==
    [_write(w, w._address, w.y_reg) EXCEPT !.ret = 0]

_TAX(w) ==
    [SetX(w, w.a_reg) EXCEPT !.ret = 0]

_TAY(w) ==
    [SetY(w, w.a_reg) EXCEPT !.ret = 0]

_TSX(w) ==
    [SetX(w, w.sp_reg) EXCEPT !.ret = 0]

_TXA(w) ==
    [SetA(w, w.x_reg) EXCEPT !.ret = 0]

\* A faulty _TXS that sets Zero and Negative as _TSX does.
_TXS_flags(w) ==
    [SetZN([w EXCEPT !.sp_reg = w.x_reg], w.x_reg) EXCEPT !.ret = 0]

_TXS(w) ==
    [w EXCEPT !.sp_reg = w.x_reg, !.ret = 0]

_TYA(w) ==
    [SetA(w, w.y_reg) EXCEPT !.ret = 0]

_XXX(w) ==
    [w EXCEPT !.ret = 0]

\* self._lookup[self._opcode].address_mode()
AddressMode(name, w) ==
    CASE name = "_IMP" -> _IMP(w)
      [] name = "_ACC" -> _ACC(w)
      [] name = "_IMM" -> _IMM(w)
      [] name = "_ZP0" -> _ZP0(w)
      [] name = "_ZPX" -> _ZPX(w)
      [] name = "_ZPY" -> _ZPY(w)
      [] name = "_REL" -> _REL(w)
      [] name = "_ABS" -> _ABS(w)
      [] name = "_ABX" -> _ABX(w)
      [] name = "_ABY" -> _ABY(w)
      [] name = "_IND" -> _IND(w)
      [] name = "_IZX" -> _IZX(w)
      [] name = "_IZY" -> _IZY(w)

\* self._lookup[self._opcode].operate()
Operate(name, w) ==
    CASE name = "_ADC" -> _ADC(w) [] name = "_AND" -> _AND(w) [] name = "_ASL" -> _ASL(w)
      [] name = "_BCC" -> _BCC(w) [] name = "_BCS" -> _BCS(w) [] name = "_BEQ" -> _BEQ(w)
      [] name = "_BIT" -> _BIT(w) [] name = "_BMI" -> _BMI(w) [] name = "_BNE" -> _BNE(w)
      [] name = "_BPL" -> _BPL(w) [] name = "_BRK" -> _BRK(w) [] name = "_BVC" -> _BVC(w)
      [] name = "_BVS" -> _BVS(w) [] name = "_CLC" -> _CLC(w) [] name = "_CLD" -> _CLD(w)
      [] name = "_CLI" -> _CLI(w) [] name = "_CLV" -> _CLV(w) [] name = "_CMP" -> _CMP(w)
      [] name = "_CPX" -> _CPX(w) [] name = "_CPY" -> _CPY(w) [] name = "_DEC" -> _DEC(w)
      [] name = "_DEX" -> _DEX(w) [] name = "_DEY" -> _DEY(w) [] name = "_EOR" -> _EOR(w)
      [] name = "_INC" -> _INC(w) [] name = "_INX" -> _INX(w) [] name = "_INY" -> _INY(w)
      [] name = "_JMP" -> _JMP(w) [] name = "_JSR" -> _JSR(w) [] name = "_LDA" -> _LDA(w)
      [] name = "_LDX" -> _LDX(w) [] name = "_LDY" -> _LDY(w) [] name = "_LSR" -> _LSR(w)
      [] name = "_NOP" -> _NOP(w) [] name = "_ORA" -> _ORA(w) [] name = "_PHA" -> _PHA(w)
      [] name = "_PHP" -> _PHP(w) [] name = "_PLA" -> _PLA(w) [] name = "_PLP" -> _PLP(w)
      [] name = "_ROL" -> _ROL(w) [] name = "_ROR" -> _ROR(w) [] name = "_RTI" -> _RTI(w)
      [] name = "_RTS" -> _RTS(w) [] name = "_SBC" -> _SBC(w) [] name = "_SEC" -> _SEC(w)
      [] name = "_SED" -> _SED(w) [] name = "_SEI" -> _SEI(w) [] name = "_STA" -> _STA(w)
      [] name = "_STX" -> _STX(w) [] name = "_STY" -> _STY(w) [] name = "_TAX" -> _TAX(w)
      [] name = "_TAY" -> _TAY(w) [] name = "_TSX" -> _TSX(w) [] name = "_TXA" -> _TXA(w)
      [] name = "_TXS" -> _TXS(w) [] name = "_TYA" -> _TYA(w) [] name = "_XXX" -> _XXX(w)

(* The processor's four entry points. *)

\* A faulty reset with a countdown of 7.
reset_cycles7(w) ==
    [LoadVector(w, 65532) EXCEPT
        !.a_reg = 0, !.x_reg = 0, !.y_reg = 0, !.sp_reg = 253, !.status_reg = 52,
        !._cycles = 7]

\* CPU.reset
reset(w) ==
    [LoadVector(w, 65532) EXCEPT
        !.a_reg = 0, !.x_reg = 0, !.y_reg = 0, !.sp_reg = 253, !.status_reg = 52,
        !._cycles = 8]

\* A faulty Interrupt that leaves the Break flag as it was.
Interrupt_keepB(w, vector, cycles) ==
    [LoadVector(PushStatus(_set_flag(_set_flag(PushLow(PushHigh(w)), FLAGS_U, TRUE),
                                     FLAGS_I, TRUE)),
                vector) EXCEPT !._cycles = cycles]

\* The push/vector sequence interrupt_request and
\* nonmaskable_interrupt_request share, with their vector and cycle count.
Interrupt(w, vector, cycles) ==
    [LoadVector(PushStatus(_set_flag(_set_flag(_set_flag(PushLow(PushHigh(w)),
                                                         FLAGS_B, FALSE),
                                               FLAGS_U, TRUE),
                                     FLAGS_I, TRUE)),
                vector) EXCEPT !._cycles = cycles]

\* A faulty interrupt_request that ignores the InterruptDisable flag.
interrupt_request_unmasked(w) ==
    [LoadVector(PushStatus(_set_flag(_set_flag(_set_flag(PushLow(PushHigh(w)),
                                                         FLAGS_B, FALSE),
                                               FLAGS_U, TRUE),
                                     FLAGS_I, TRUE)),
                65534) EXCEPT !._cycles = 7]

\* CPU.interrupt_request
interrupt_request(w) ==
    IF ~_get_flag(w, FLAGS_I) THEN Interrupt(w, 65534, 7) ELSE w

\* CPU.nonmaskable_interrupt_request
nonmaskable_interrupt_request(w) ==
    Interrupt(w, 65530, 8)

\* A faulty countdown that leaves the opcode's own cycle out.
Execute_short(w, e) ==
    Only({ Only({ [w3 EXCEPT !._cycles = e[4] - 1 + And(w2.ret, w3.ret)]
                : w3 \in {Operate(e[2], w2)} })
         : w2 \in {AddressMode(e[3], w)} })

\* The address mode and the operation of table entry e, and the cycle count
\* cycles + (extra_cycle1 & extra_cycle2).
Execute(w, e) ==
    Only({ Only({ [w3 EXCEPT !._cycles = e[4] + And(w2.ret, w3.ret)]
                : w3 \in {Operate(e[2], w2)} })
         : w2 \in {AddressMode(e[3], w)} })

\* self._lookup[self._opcode]: an opcode value outside -256..255 raises
\* IndexError, after the opcode was stored and PC advanced.
Decode(w) ==
    IF ~LookupIndexable(w._opcode)
    THEN [w EXCEPT !.exc = IndexError]
    ELSE Execute(w, LookupAt(w._opcode))

\* The fetch-decode-execute branch of CPU.clock (taken when _cycles == 0).
Fetch(w) ==
    Decode(Only({ [r EXCEPT !._opcode = r.val, !.pc_reg = @ + 1] : r \in {_read(w, w.pc_reg)} }))

\* The end of CPU.clock: count the call and the cycle; ret is the value
\* returned.
Tick(w) ==
    IF w.exc # None THEN w
    ELSE [w EXCEPT !._clock_count = @ + 1, !._cycles = @ - 1, !.ret = w._cycles - 1]

\* A faulty clock that fetches on every call, whatever the countdown.
clock_refetch(w) ==
    Tick(Fetch(w))

\* CPU.clock
clock(w) ==
    Tick(IF w._cycles = 0 THEN Fetch(w) ELSE w)

(* ---------------------- nes/bus.py: reset and clock --------------------- *)

\* A Bus.reset that leaves the ratio counter as it is.
Bus_reset_keeps_count(w) ==
    [reset(w) EXCEPT !.ppu = PPU_reset(@)]

\* Bus.reset
Bus_reset(w) ==
    [reset(w) EXCEPT !.ppu = PPU_reset(@), !._system_clock_count = 0]

\* Bus.clock: self.ppu.clock().  The calls Bus.clock makes are entered in
\* the log.
Bus_clock_ppu(w) ==
    [w EXCEPT !.log = Append(@, <<"ppu.clock">>), !.ppu = PPU_clock(@)]

\* A faulty ratio test that counts the call before testing the counter.
Bus_clock_cpu_counted(w) ==
    IF (w._system_clock_count + 1) % 3 = 0
    THEN clock([w EXCEPT !.log = Append(@, <<"cpu.clock">>)])
    ELSE w

\* Bus.clock: if self._system_clock_count % 3 == 0: self.cpu.clock()
Bus_clock_cpu(w) ==
    IF w._system_clock_count % 3 = 0
    THEN clock([w EXCEPT !.log = Append(@, <<"cpu.clock">>)])
    ELSE w

\* Bus.clock: self._system_clock_count += 1, not reached when cpu.clock()
\* raised.
Bus_clock_count(w) ==
    IF w.exc # None THEN w ELSE [w EXCEPT !._system_clock_count = @ + 1]

\* Bus.clock
Bus_clock(w) ==
    Bus_clock_count(Bus_clock_cpu(Bus_clock_ppu(w)))

(* ------------------------------ state ---------------------------------- *)

VARIABLES
    a_reg, x_reg, y_reg, sp_reg, pc_reg, status_reg,   \* CPU registers
    _address, _opcode, _cycles, _clock_count,          \* CPU helper variables
    ram, ppu, cart,                                    \* Bus.ram, Bus.ppu, Bus.cart
    _system_clock_count,                               \* Bus._system_clock_count
    op,        \* the last driver call: its name, whether it fetched an opcode,
               \* the value it returned and the exception it raised
    log,       \* the bus accesses the last driver call made, in order
    pre,       \* the machine as it was before the last driver call
    fetchPre,  \* the machine as it was before the most recent opcode fetch
    entered,   \* the most recent subroutine or interrupt entry of a CPU.clock()
               \* or interrupt call: its kind, PC and SP before it, and the
               \* stack writes it made
    since,     \* the most recent of: power-up, an opcode fetch, a reset, an interrupt taken
    ticks,     \* clock() calls since then (the fetching call included)
    calls,     \* reset, interrupt, bus access and cartridge calls made so far
    busTicks   \* since construction or the last Bus.reset(): n, the Bus.clock()
               \* calls; ppu and cpu, the clock() calls they made to each unit;
               \* sinceCpu, the picture unit's ticks after the processor's last
               \* one; gap, the picture unit's ticks from the processor's last
               \* tick but one to its last

machine == <<a_reg, x_reg, y_reg, sp_reg, pc_reg, status_reg,
             _address, _opcode, _cycles, _clock_count, ram, ppu, cart,
             _system_clock_count>>

history == <<op, log, pre, fetchPre, entered, since, ticks, calls, busTicks>>

vars == <<machine, history>>

\* The machine of the current state, as the operators above take it.
World ==
    [a_reg |-> a_reg, x_reg |-> x_reg, y_reg |-> y_reg, sp_reg |-> sp_reg,
     pc_reg |-> pc_reg, status_reg |-> status_reg,
     _address |-> _address, _opcode |-> _opcode, _cycles |-> _cycles,
     _clock_count |-> _clock_count,
     ram |-> ram, ppu |-> ppu, cart |-> cart,
     _system_clock_count |-> _system_clock_count,
     log |-> <<>>, val |-> 0, ret |-> 0, exc |-> None]

\* The next state's machine is w.
Commit(w) ==
    /\ a_reg' = w.a_reg /\ x_reg' = w.x_reg /\ y_reg' = w.y_reg
    /\ sp_reg' = w.sp_reg /\ pc_reg' = w.pc_reg /\ status_reg' = w.status_reg
    /\ _address' = w._address /\ _opcode' = w._opcode /\ _cycles' = w._cycles
    /\ _clock_count' = w._clock_count
    /\ ram' = w.ram /\ ppu' = w.ppu /\ cart' = w.cart
    /\ _system_clock_count' = w._system_clock_count
    /\ log' = w.log
    /\ pre' = World

\* The record of an entry made in the current state by a call with bus
\* accesses l.
Entered(kind, l) ==
    [kind |-> kind, pc_reg |-> pc_reg, sp_reg |-> sp_reg,
     pushed |-> SelectSeq(l, LAMBDA e : e[1] = "w")]

\* Bus.__init__: the state after construction.
Init ==
    /\ a_reg = CPU_init.a_reg /\ x_reg = CPU_init.x_reg /\ y_reg = CPU_init.y_reg
    /\ sp_reg = CPU_init.sp_reg /\ pc_reg = CPU_init.pc_reg
    /\ status_reg = CPU_init.status_reg
    /\ _address = CPU_init._address /\ _opcode = CPU_init._opcode
    /\ _cycles = CPU_init._cycles /\ _clock_count = CPU_init._clock_count
    /\ ram = ZeroList
    /\ ppu = PPU_init
    /\ cart = None
    /\ _system_clock_count = 0
    /\ op = [name |-> "power", fetch |-> FALSE, ret |-> 0, exc |-> None]
    /\ log = <<>>
    /\ pre = CPU_init @@ [ram |-> ZeroList, ppu |-> PPU_init, cart |-> None,
                          _system_clock_count |-> 0,
                          log |-> <<>>, val |-> 0, ret |-> 0, exc |-> None]
    /\ fetchPre = pre
    /\ entered = [kind |-> "none", pc_reg |-> 0, sp_reg |-> 0, pushed |-> <<>>]
    /\ since = "power"
    /\ ticks = 0
    /\ calls = 0
    /\ busTicks = [n |-> 0, ppu |-> 0, cpu |-> 0, sinceCpu |-> 0, gap |-> 0]

(* ------------------------- programs and data --------------------------- *)

\* A memory image is a sequence of <<address, data>> pairs the driver writes
\* through Bus.write before it starts the clock.

\* Data bytes every image holds: operands in page 0, a pointer at 0xFE/0xFF,
\* values in pages 1 and 2, a status byte where PLP pulls it from at
\* power-up (0x01FE), and a short routine at 0x0234 (CLI, NOP, NOP).
Data ==
    << <<128, 144>>, <<129, 55>>, <<130, 1>>, <<254, 255>>, <<255, 1>>,
       <<256, 55>>, <<510, 203>>, <<511, 128>>, <<512, 144>>,
       <<564, 88>>, <<565, 234>>, <<566, 234>> >>

\* The image of a program: its bytes from address 0 on, then the data.
Image(bytes) ==
    [i \in 1..Len(bytes) |-> <<i - 1, bytes[i]>>] \o Data

\* Instructions that set the registers and flags up before the instruction
\* under study: nothing; LDX #2, LDY #1, LDA #$37; PLP (status := 0xCB);
\* PLP, LDX #2, LDY #1.
Setups ==
    { <<>>,
      <<162, 2, 160, 1, 169, 55>>,
      <<40>>,
      <<40, 162, 2, 160, 1>> }

\* Operand byte pairs <<low, high>> of the instruction under study.
Operands ==
    { <<254, 0>>, <<128, 0>>, <<0, 0>>, <<255, 32>>, <<255, 68>>, <<128, 68>> }

\* Every opcode byte with every operand pair after every setup.
InstrPrograms ==
    { s \o <<o>> \o b : s \in Setups, o \in 0..255, b \in Operands }

\* LDA, LDX and LDY immediate with every 8-bit operand, at power-up and
\* after PLP.
LoadPrograms ==
    { s \o <<o, v>> : s \in {<<>>, <<40>>}, o \in {169, 162, 160}, v \in 0..255 }

\* The programs of the runs with reset and interrupt calls: CLI, NOP, NOP;
\* JMP $0234; LDX #1, TXS, LDA #$37, LDY #2; PLP, NOP; LDA #$37;
\* CLI, LDX #1, TXS, NOP.
DriverPrograms ==
    { <<88, 234, 234>>,
      <<76, 52, 2>>,
      <<162, 1, 154, 169, 55, 160, 2>>,
      <<40, 234>>,
      <<169, 55>>,
      <<88, 162, 1, 154, 234>> }

(* ------------------------------ actions -------------------------------- *)

RECURSIVE WriteAll(_, _)
\* The driver's Bus.write calls for an image, in order.
WriteAll(w, img) ==
    IF img = <<>> THEN w
    ELSE WriteAll(Bus_write(w, Head(img)[1], Head(img)[2]), Tail(img))

\* The driver loads a memory image after constructing the bus.
Load(bytes) ==
    /\ op.name = "power"
    /\ Commit(WriteAll(World, Image(bytes)))
    /\ op' = [name |-> "load", fetch |-> FALSE, ret |-> 0, exc |-> None]
    /\ UNCHANGED <<fetchPre, entered, since, ticks, calls, busTicks>>

LoadInstr ==
    \E bytes \in InstrPrograms \cup LoadPrograms : Load(bytes)

LoadDriver ==
    \E bytes \in DriverPrograms : Load(bytes)

\* One CPU.clock() call of the driver.  An exception that escapes a call
\* ends the driver's loop, so no call follows one.
ClockStep ==
    /\ op.exc = None
    /\ \E w \in {clock(World)} :
           /\ Commit(w)
           /\ op' = [name |-> "clock", fetch |-> (_cycles = 0), ret |-> w.ret, exc |-> w.exc]
    /\ IF _cycles = 0
       THEN fetchPre' = World /\ since' = "fetch" /\ ticks' = 1
       ELSE fetchPre' = fetchPre /\ since' = since /\ ticks' = ticks + 1
    /\ entered' = IF op'.fetch /\ op'.exc = None /\ LookupAt(_opcode')[2] = "_JSR"
                  THEN Entered("jsr", log')
                  ELSE entered
    /\ UNCHANGED <<calls, busTicks>>

\* The driver calls CPU.clock(), up to MaxClock times from power-up.
Clock ==
    /\ _clock_count < MaxClock
    /\ ClockStep

\* The driver calls CPU.reset().
Reset ==
    /\ op.exc = None
    /\ calls < MaxCalls
    /\ Commit(reset(World))
    /\ op' = [name |-> "reset", fetch |-> FALSE, ret |-> 0, exc |-> None]
    /\ since' = "reset" /\ ticks' = 0
    /\ calls' = calls + 1
    /\ UNCHANGED <<fetchPre, entered, busTicks>>

\* The driver calls CPU.interrupt_request().
IRQ ==
    /\ op.exc = None
    /\ calls < MaxCalls
    /\ Commit(interrupt_request(World))
    /\ op' = [name |-> "irq", fetch |-> FALSE, ret |-> 0, exc |-> None]
    /\ IF _cycles' # _cycles \/ log' # <<>>
       THEN since' = "irq" /\ ticks' = 0
       ELSE since' = since /\ ticks' = ticks
    /\ entered' = IF log' # <<>> THEN Entered("irq", log') ELSE entered
    /\ calls' = calls + 1
    /\ UNCHANGED <<fetchPre, busTicks>>

\* The driver calls CPU.nonmaskable_interrupt_request().
NMI ==
    /\ op.exc = None
    /\ calls < MaxCalls
    /\ Commit(nonmaskable_interrupt_request(World))
    /\ op' = [name |-> "nmi", fetch |-> FALSE, ret |-> 0, exc |-> None]
    /\ since' = "nmi" /\ ticks' = 0
    /\ entered' = Entered("nmi", log')
    /\ calls' = calls + 1
    /\ UNCHANGED <<fetchPre, busTicks>>

\* The number of entries e of a log.
Count(l, e) ==
    Cardinality({i \in 1..Len(l) : l[i] = e})

\* The driver calls Bus.clock().
BusClockStep ==
    /\ op.exc = None
    /\ \E w \in {Bus_clock(World)} :
           /\ Commit(w)
           /\ op' = [name |-> "busclock", fetch |-> (Count(w.log, <<"cpu.clock">>) > 0 /\ _cycles = 0),
                     ret |-> 0, exc |-> w.exc]
           /\ \E c \in {Count(w.log, <<"cpu.clock">>)} :
                  busTicks' = [n |-> busTicks.n + 1,
                               ppu |-> busTicks.ppu + Count(w.log, <<"ppu.clock">>),
                               cpu |-> busTicks.cpu + c,
                               sinceCpu |-> IF c > 0 THEN 0 ELSE busTicks.sinceCpu + 1,
                               gap |-> IF c > 0 THEN busTicks.sinceCpu + 1 ELSE busTicks.gap]
    /\ UNCHANGED <<fetchPre, entered, calls>>

\* The driver calls Bus.clock(), up to MaxBusClock times.
BusClock ==
    /\ ppu._clock_count < MaxBusClock
    /\ BusClockStep
    /\ UNCHANGED <<since, ticks>>

\* The driver calls Bus.reset().
BusReset ==
    /\ op.exc = None
    /\ calls < MaxCalls
    /\ Commit(Bus_reset(World))
    /\ op' = [name |-> "busreset", fetch |-> FALSE, ret |-> 0, exc |-> None]
    /\ busTicks' = [n |-> 0, ppu |-> 0, cpu |-> 0, sinceCpu |-> 0, gap |-> 0]
    /\ calls' = calls + 1
    /\ UNCHANGED <<fetchPre, entered, since, ticks>>

(* ------------------ bus accesses and cartridges ------------------------- *)

\* Addresses the driver reads and writes on the bus: RAM and its mirrors,
\* the picture unit's ports 0, 2 and 7 and their last mirrors, and addresses
\* outside both windows, below 0 and above 0xFFFF included.
RamAddresses ==
    {0, 2047, 4096, 8191}

PpuAddresses ==
    {8192, 8194, 8199, 16376, 16383}

OtherAddresses ==
    {16384, 16416, 32768, 65535, -1, 65536}

\* Bytes the driver writes: 0x37, and 0x84, which has the controller's
\* increment-mode bit set.
AccessData ==
    {55, 132}

\* The driver calls Bus.write(a, d).
BusWriteAt(a, d) ==
    /\ op.exc = None
    /\ calls < MaxAccess
    /\ \E w \in {Bus_write(World, a, d)} :
           /\ Commit(w)
           /\ op' = [name |-> "buswrite", fetch |-> FALSE, ret |-> 0, exc |-> w.exc,
                     args |-> <<a, d>>]
    /\ calls' = calls + 1
    /\ UNCHANGED <<fetchPre, entered, since, ticks, busTicks>>

\* The driver calls Bus.read(a, read_only).
BusReadAt(a, read_only) ==
    /\ op.exc = None
    /\ calls < MaxAccess
    /\ \E w \in {Bus_read(World, a, read_only)} :
           /\ Commit(w)
           /\ op' = [name |-> "busread", fetch |-> FALSE, ret |-> w.val, exc |-> w.exc,
                     args |-> <<a, read_only>>]
    /\ calls' = calls + 1
    /\ UNCHANGED <<fetchPre, entered, since, ticks, busTicks>>

\* The driver calls Bus.insert_cartridge(Cartridge(path)), with file at the
\* path and cls registered as mapper 0.  When the constructor raises, no
\* cartridge is inserted.
InsertCartridge(file, cls) ==
    /\ op.exc = None
    /\ calls < MaxAccess
    /\ \E r \in {Cartridge_init(file, cls)} :
           /\ Commit(IF r.exc = None THEN [World EXCEPT !.cart = r.cart] ELSE World)
           /\ op' = [name |-> "insert", fetch |-> FALSE, ret |-> 0, exc |-> r.exc,
                     args |-> <<file, cls>>]
    /\ calls' = calls + 1
    /\ UNCHANGED <<fetchPre, entered, since, ticks, busTicks>>

BusWrite ==
    \E a \in RamAddresses \cup PpuAddresses \cup OtherAddresses, d \in AccessData :
        BusWriteAt(a, d)

BusRead ==
    \E a \in RamAddresses \cup PpuAddresses \cup OtherAddresses, read_only \in BOOLEAN :
        BusReadAt(a, read_only)

\* The driver inserts the cartridge of a path that cannot be opened.
InsertUnopenable ==
    InsertCartridge(Unopenable, Mapper000)

\* Bytes of an image's body, by offset: the first and last byte of the
\* trainer, of each program bank and of the pattern bank after one or two
\* program banks.
Contents ==
    (0 :> 76) @@ (511 :> 9) @@ (512 :> 77) @@ (16383 :> 3) @@ (16384 :> 4) @@
    (16895 :> 6) @@ (16896 :> 10) @@ (24575 :> 5) @@ (32767 :> 7) @@ (32768 :> 8)

\* An image of size bytes after the header.
ImageSized(p, c, m1, m2, size) ==
    [opens |-> TRUE, prg_rom_chunks |-> p, chr_rom_chunks |-> c,
     mapper_1 |-> m1, mapper_2 |-> m2, size |-> size,
     body |-> [k \in {j \in DOMAIN Contents : j < size} |-> Contents[k]]]

\* A complete image: trainer (when flag bit 2 is set), p program banks and c
\* pattern banks.
ImageOf(p, c, m1, m2) ==
    ImageSized(p, c, m1, m2, (IF And(m1, 4) # 0 THEN 512 ELSE 0) + p * 16384 + c * 8192)

\* Images: one program and one pattern bank; two program banks, vertical
\* mirroring; no bank at all; a trainer; mapper id 1; mapper id 16.
Images ==
    { ImageOf(1, 1, 0, 0), ImageOf(2, 0, 1, 0), ImageOf(0, 0, 0, 0),
      ImageOf(1, 1, 4, 0), ImageOf(1, 1, 16, 0), ImageOf(1, 0, 0, 16) }

\* Addresses the driver reads and writes on the cartridge.
CartAddresses ==
    {0, 8191, 16416, 20480, 32767, 32768, 49152, 65535}

\* The driver calls Cartridge.read(a) on the inserted cartridge.
CartReadAt(a) ==
    /\ op.exc = None
    /\ calls < MaxAccess
    /\ cart # None
    /\ Commit(World)
    /\ op' = [name |-> "cartread", fetch |-> FALSE, ret |-> Cartridge_read(cart, a),
              exc |-> IF Cartridge_read_raises(cart, a) THEN IndexError ELSE None,
              args |-> <<a>>]
    /\ calls' = calls + 1
    /\ UNCHANGED <<fetchPre, entered, since, ticks, busTicks>>

\* The driver calls Cartridge.write(a, d) on the inserted cartridge: it
\* raises before it stores anything, or does nothing.
CartWriteAt(a, d) ==
    /\ op.exc = None
    /\ calls < MaxAccess
    /\ cart # None
    /\ Commit(World)
    /\ op' = [name |-> "cartwrite", fetch |-> FALSE, ret |-> 0,
              exc |-> Cartridge_write(cart, a, d), args |-> <<a, d>>]
    /\ calls' = calls + 1
    /\ UNCHANGED <<fetchPre, entered, since, ticks, busTicks>>

CartRead ==
    \E a \in CartAddresses : CartReadAt(a)

CartWrite ==
    \E a \in CartAddresses, d \in AccessData : CartWriteAt(a, d)

InsertImage ==
    \E file \in Images \cup {Unopenable}, cls \in {Mapper000, Mapper000Subclass} :
        InsertCartridge(file, cls)

\* Bank counts and addresses the mapper's translation is applied to.
BankCounts ==
    {0, 1, 2, 3}

MapAddresses ==
    {-1, 0, 8191, 8192, 16416, 32767, 32768, 49151, 49152, 65535, 65536}

\* The driver calls map_read(a) on a baseline mapper of p program banks and
\* c pattern banks.
MapRead ==
    /\ op.name = "power"
    /\ \E p \in BankCounts, c \in {0, 1}, a \in MapAddresses :
           op' = [name |-> "map_read", fetch |-> FALSE,
                  ret |-> Mapper000_map_read([prg_banks |-> p, chr_banks |-> c], a),
                  exc |-> None, args |-> <<p, c, a>>]
    /\ Commit(World)
    /\ UNCHANGED <<fetchPre, entered, since, ticks, calls, busTicks>>

\* The driver calls map_write(a) on a baseline mapper of p program banks and
\* c pattern banks.
MapWrite ==
    /\ op.name = "power"
    /\ \E p \in BankCounts, c \in {0, 1}, a \in MapAddresses :
           op' = [name |-> "map_write", fetch |-> FALSE,
                  ret |-> Mapper000_map_write([prg_banks |-> p, chr_banks |-> c], a),
                  exc |-> None, args |-> <<p, c, a>>]
    /\ Commit(World)
    /\ UNCHANGED <<fetchPre, entered, since, ticks, calls, busTicks>>

\* A driver that inserts a cartridge and reads and writes on it, directly
\* and through the bus.
NextCart ==
    \/ InsertImage
    \/ CartRead
    \/ CartWrite
    \/ BusRead
    \/ BusWrite
    \/ MapRead
    \/ MapWrite

SpecCart ==
    Init /\ [][NextCart]_vars

\* A driver that reads and writes on the bus, with no cartridge or with the
\* cartridge of a path that cannot be opened.
NextAccess ==
    \/ BusWrite
    \/ BusRead
    \/ InsertUnopenable

SpecAccess ==
    Init /\ [][NextAccess]_vars

\* A driver that loads a program and then clocks, resets and interrupts
\* the processor in any order.
Next ==
    \/ LoadDriver
    \/ Clock
    \/ Reset
    \/ IRQ
    \/ NMI

Spec ==
    Init /\ [][Next]_vars

\* A driver that loads a program and clocks the processor.
NextInstr ==
    \/ LoadInstr
    \/ Clock

SpecInstr ==
    Init /\ [][NextInstr]_vars

\* A driver that loads a program and then clocks and resets the bus, as
\* main.py does.
NextBus ==
    \/ LoadDriver
    \/ BusClock
    \/ BusReset

SpecBus ==
    Init /\ [][NextBus]_vars

(* ---------------------------- properties -------------------------------- *)

\* The write entries of a bus log.
IsWrite(e) ==
    e[1] = "w"

Writes(l) ==
    SelectSeq(l, IsWrite)

\* A flag of a status byte.
Flag(status, flag) ==
    And(status, flag) # 0

\* The last driver call was a clock() that fetched and executed an
\* instruction; Entry is that instruction's row of the opcode table.
Executed ==
    op.name = "clock" /\ op.fetch /\ op.exc = None

Entry ==
    LookupAt(_opcode)

\* While nothing but clock() calls (and ignored interrupt requests) followed
\* an entry point that set the countdown to n: the calls made so far and the
\* countdown add up to n, no call has fetched, and each call returned the
\* countdown it left.  So call number n is the first to return 0, and the
\* countdown is 0, which is what makes the next call fetch, only after it.
CountsDownFrom(n) ==
    /\ ticks + _cycles = n
    /\ _cycles >= 0
    /\ op.name = "clock" => ~op.fetch /\ op.ret = _cycles

(* C1: CPU.reset(), called in any state, leaves the accumulator, X and Y 0  *)
(* and the stack pointer 0xFD, performs no bus write, and leaves RAM (and   *)
(* the picture unit's memory and registers) unchanged.                     *)
Thm_C1 ==
    op.name = "reset" =>
        /\ a_reg = 0 /\ x_reg = 0 /\ y_reg = 0
        /\ sp_reg = 253
        /\ Writes(log) = <<>>
        /\ ram = pre.ram
        /\ ppu = pre.ppu

\* A reset of a machine with non-zero registers, a moved stack pointer, a
\* loaded RAM and an instruction in flight.
Wit_C1 ==
    /\ op.name = "reset"
    /\ pre.a_reg # 0 /\ pre.x_reg # 0 /\ pre.y_reg # 0
    /\ pre.sp_reg # 253
    /\ pre.ram # ZeroList
    /\ pre._cycles # 0

(* C2: at power-up and after every CPU.reset() the status register equals  *)
(* Unused|InterruptDisable exactly (0x24: Break and every other bit clear). *)
(* The source assigns 0x34 in both places, so Break is set.                 *)
Claim_C2 ==
    op.name \in {"power", "reset"} => status_reg = Or(FLAGS_U, FLAGS_I)

(* C3: after CPU.reset() PC is bus.read(0xFFFC) | (bus.read(0xFFFD) << 8),  *)
(* and exactly 8 clock() calls pass, the 8th being the first to return 0,   *)
(* before a clock() call fetches the next opcode.                           *)
Thm_C3 ==
    /\ op.name = "reset" =>
           /\ Len(log) = 2
           /\ log[1] = <<"r", 65532, Bus_read_result(pre, 65532, FALSE).val>>
           /\ log[2] = <<"r", 65533, Bus_read_result(pre, 65533, FALSE).val>>
           /\ pc_reg = Or(log[1][3], Shl(log[2][3], 8))
    /\ since = "reset" => CountsDownFrom(8)

\* The eighth clock() call after a reset.
Wit_C3 ==
    /\ since = "reset" /\ ticks = 8
    /\ op.name = "clock" /\ op.ret = 0

\* The three-byte push and the vector load of an interrupt taken in machine
\* pre: PC high, PC low and the status byte (Break clear, Unused and
\* InterruptDisable set, the other flags as they were) written at
\* 0x0100 + SP and the two addresses below it, SP lowered by 3, PC loaded
\* from the vector's two bytes, low byte first.  The addresses and the new
\* SP are those of plain integer arithmetic on SP.
InterruptTaken(vector) ==
    /\ Len(log) = 5
    /\ log[1] = <<"w", 256 + pre.sp_reg, And(Shr(pre.pc_reg, 8), 255)>>
    /\ log[2] = <<"w", 256 + pre.sp_reg - 1, And(pre.pc_reg, 255)>>
    /\ log[3] = <<"w", 256 + pre.sp_reg - 2, status_reg>>
    /\ log[4] = <<"r", vector, Bus_read_result(pre, vector, FALSE).val>>
    /\ log[5] = <<"r", vector + 1, Bus_read_result(pre, vector + 1, FALSE).val>>
    /\ status_reg % 256 = status_reg
    /\ ~Flag(status_reg, FLAGS_B) /\ Flag(status_reg, FLAGS_U) /\ Flag(status_reg, FLAGS_I)
    /\ \A f \in {FLAGS_C, FLAGS_Z, FLAGS_D, FLAGS_V, FLAGS_N} :
           Flag(status_reg, f) = Flag(pre.status_reg, f)
    /\ sp_reg = pre.sp_reg - 3
    /\ pc_reg = Or(log[4][3], Shl(log[5][3], 8))
    /\ \A i \in 1..3 : (0 <= log[i][2] /\ log[i][2] <= 8191) =>
           ListGet(ram, log[i][2] % 2048) = log[i][3]

(* C4: nonmaskable_interrupt_request(), whatever the InterruptDisable flag   *)
(* and the countdown, writes PC high at 0x0100+SP, PC low at the address     *)
(* below and the status byte (Break clear, Unused and InterruptDisable set)  *)
(* below that, lowers SP by 3, loads PC from 0xFFFA/0xFFFB, and the next     *)
(* opcode fetch comes after exactly 8 clock() calls.                         *)
Thm_C4 ==
    /\ op.name = "nmi" => InterruptTaken(65530) /\ _cycles = 8
    /\ since = "nmi" => CountsDownFrom(8)

\* An NMI taken with InterruptDisable clear and Break set, in the middle of
\* an instruction, with different high and low bytes of PC.
Wit_C4 ==
    /\ op.name = "nmi"
    /\ ~Flag(pre.status_reg, FLAGS_I) /\ Flag(pre.status_reg, FLAGS_B)
    /\ pre._cycles # 0
    /\ pre.pc_reg > 255

(* C5: interrupt_request() with InterruptDisable clear makes the same three *)
(* writes as NMI (PC high, PC low, status with Break clear, Unused and       *)
(* InterruptDisable set, at descending addresses from 0x0100+SP), loads PC   *)
(* from 0xFFFE/0xFFFF and sets the countdown to 7.                           *)
Thm_C5 ==
    op.name = "irq" /\ ~Flag(pre.status_reg, FLAGS_I) =>
        InterruptTaken(65534) /\ _cycles = 7

\* An IRQ taken with Break set and Unused set before it, PC above page 0.
Wit_C5 ==
    /\ op.name = "irq"
    /\ ~Flag(pre.status_reg, FLAGS_I) /\ Flag(pre.status_reg, FLAGS_B)
    /\ pre.pc_reg > 255
    /\ _cycles = 7

(* C6: interrupt_request() with InterruptDisable set changes nothing: the   *)
(* registers, the flags, the countdown, the cycle counter and all memory     *)
(* are as before, and the call makes no bus access.                          *)
Thm_C6 ==
    op.name = "irq" /\ Flag(pre.status_reg, FLAGS_I) =>
        /\ World = pre
        /\ log = <<>>

\* An ignored IRQ in the middle of an instruction, with a loaded RAM.
Wit_C6 ==
    /\ op.name = "irq"
    /\ Flag(pre.status_reg, FLAGS_I)
    /\ pre._cycles # 0
    /\ pre.ram # ZeroList

(* Instructions.  The bus log of the clock() call that executed an         *)
(* instruction starts with the opcode read, the operand reads follow.       *)

\* The data of read number i of the executing call.
ReadValue(i) ==
    log[i][3]

\* The 16-bit value of two bytes read one after the other, low byte first.
Word(i) ==
    ReadValue(i) + 256 * ReadValue(i + 1)

\* The address the executed instruction resolves its operand to, computed
\* from the operand bytes read and the index registers before the
\* instruction; defined for the memory addressing modes.
Resolved ==
    CASE Entry[3] = "_ZP0" -> ReadValue(2) % 256
      [] Entry[3] = "_ZPX" -> (ReadValue(2) + pre.x_reg) % 256
      [] Entry[3] = "_ZPY" -> (ReadValue(2) + pre.y_reg) % 256
      [] Entry[3] = "_ABS" -> Word(2)
      [] Entry[3] = "_ABX" -> Word(2) + pre.x_reg
      [] Entry[3] = "_ABY" -> Word(2) + pre.y_reg
      [] Entry[3] = "_IZX" -> Word(3)
      [] Entry[3] = "_IZY" -> Word(3) + pre.y_reg

\* The address before the index was added, for the three modes that can
\* signal a page cross.
Unindexed ==
    IF Entry[3] = "_IZY" THEN Word(3) ELSE Word(2)

\* Adding the index changed the high byte of the address.
PageCrossed ==
    (Resolved \div 256) % 256 # (Unindexed \div 256) % 256

\* A clock() call that does not fetch returns one less than the call before
\* it, so an instruction whose fetching call returned n is over (the
\* countdown returns 0) after n + 1 calls, the fetching one included.
CountsDown ==
    (op.name = "clock" /\ op'.name = "clock" /\ ~op'.fetch) =>
        (op'.ret = op.ret - 1 /\ op'.ret >= 0)

PenaltyOps ==
    {"_LDA", "_LDX", "_LDY", "_ADC", "_SBC", "_AND", "_ORA", "_EOR", "_CMP"}

\* An instruction that accepts the page-cross cycle, in one of the three
\* modes that signal it, takes the table's count plus 1 when PageCrossed and
\* the table's count otherwise.
PenaltyCycles ==
    (Executed /\ Entry[2] \in PenaltyOps /\ Entry[3] \in {"_ABX", "_ABY", "_IZY"}) =>
        op.ret + 1 = Entry[4] + (IF PageCrossed THEN 1 ELSE 0)

(* C7: LDA, LDX, LDY, ADC, SBC, AND, ORA, EOR and CMP in absolute,X,         *)
(* absolute,Y or (indirect),Y mode take, from the fetch until the countdown  *)
(* returns 0, the table's base count of clock() calls plus 1 exactly when    *)
(* adding the index changes the high byte of the address.                    *)
Thm_C7 ==
    []PenaltyCycles /\ [][CountsDown]_vars

\* LDA absolute,Y with base 0x44FF and Y = 1: 5 calls.
Wit_C7 ==
    /\ Executed /\ _opcode = 185
    /\ Word(2) = 17663 /\ pre.y_reg = 1
    /\ op.ret + 1 = 5

StoreOps ==
    {"_STA", "_STX", "_STY"}

\* The register a store writes, as it was before the instruction.
StoreSource ==
    CASE Entry[2] = "_STA" -> pre.a_reg
      [] Entry[2] = "_STX" -> pre.x_reg
      [] Entry[2] = "_STY" -> pre.y_reg

\* The clock() calls a store takes in each addressing mode.
StoreCycles ==
    CASE Entry[3] = "_ZP0" -> 3
      [] Entry[3] \in {"_ZPX", "_ZPY", "_ABS"} -> 4
      [] Entry[3] \in {"_ABX", "_ABY"} -> 5
      [] Entry[3] \in {"_IZX", "_IZY"} -> 6

\* A store's one bus write puts the source register at the resolved
\* address, and its count is the table's and the mode's, page cross or not.
StoreWrites ==
    (Executed /\ Entry[2] \in StoreOps) =>
        /\ Writes(log) = << <<"w", Resolved, StoreSource>> >>
        /\ log[Len(log)] = <<"w", Resolved, StoreSource>>
        /\ (0 <= Resolved /\ Resolved <= 8191) => ListGet(ram, Resolved % 2048) = StoreSource
        /\ op.ret + 1 = StoreCycles
        /\ Entry[4] = StoreCycles

(* C8: STA, STX and STY write the source register to the resolved address   *)
(* and take exactly the table's base count of clock() calls (3 zero-page,    *)
(* 4 zero-page-indexed, 4 absolute, 5 absolute-indexed, 6 indirect), with no *)
(* extra cycle when the indexed address crosses a page.                      *)
Thm_C8 ==
    []StoreWrites /\ [][CountsDown]_vars

\* STA absolute,X with base 0x00FE and X = 2, which crosses into page 1.
Wit_C8 ==
    /\ Executed /\ _opcode = 157
    /\ Word(2) = 254 /\ pre.x_reg = 2 /\ PageCrossed
    /\ pre.a_reg = 55
    /\ op.ret + 1 = 5

\* The register a load targets, after the instruction.
LoadTarget ==
    CASE Entry[2] = "_LDA" -> a_reg
      [] Entry[2] = "_LDX" -> x_reg
      [] Entry[2] = "_LDY" -> y_reg

\* The value a load read: the data of the call's last bus read.
Loaded ==
    ReadValue(Len(log))

(* C9: for every 8-bit value v and every addressing mode, LDA, LDX and LDY   *)
(* leave the target register equal to v, Zero equal to (v = 0), Negative     *)
(* equal to bit 7 of v, and Carry, InterruptDisable, Decimal, Break and      *)
(* Overflow as they were before the instruction.                             *)
Thm_C9 ==
    (Executed /\ Entry[2] \in {"_LDA", "_LDX", "_LDY"} /\ Loaded \in 0..255) =>
        /\ log[Len(log)][1] = "r"
        /\ Entry[3] # "_IMM" => log[Len(log)][2] = Resolved
        /\ LoadTarget = Loaded
        /\ Flag(status_reg, FLAGS_Z) = (Loaded = 0)
        /\ Flag(status_reg, FLAGS_N) = (Loaded >= 128)
        /\ \A f \in {FLAGS_C, FLAGS_I, FLAGS_D, FLAGS_B, FLAGS_V} :
               Flag(status_reg, f) = Flag(pre.status_reg, f)

\* LDX #$80 with Carry, Zero and Overflow set and Negative clear before it.
Wit_C9 ==
    /\ Executed /\ _opcode = 162 /\ Loaded = 128
    /\ Flag(pre.status_reg, FLAGS_C) /\ Flag(pre.status_reg, FLAGS_V)
    /\ x_reg = 128

NoFlagOps ==
    StoreOps \cup {"_TXS", "_JMP", "_JSR", "_RTS", "_PHA", "_PHP", "_NOP",
                   "_BCC", "_BCS", "_BEQ", "_BMI", "_BNE", "_BPL", "_BVC", "_BVS"}

(* C10: the stores, TXS, JMP, JSR, RTS, the conditional branches, PHA, PHP   *)
(* and NOP leave all eight bits of the status register as they were before   *)
(* the instruction.                                                          *)
Thm_C10 ==
    (Executed /\ Entry[2] \in NoFlagOps) => status_reg = pre.status_reg

\* TXS with X = 0 and Zero clear.
Wit_C10 ==
    /\ Executed /\ Entry[2] = "_TXS"
    /\ pre.x_reg = 0 /\ ~Flag(pre.status_reg, FLAGS_Z)
    /\ sp_reg = 0

(* C11: a CPU.clock() call made while the countdown is non-zero lowers the    *)
(* countdown by exactly 1, raises the global cycle counter by 1 and returns   *)
(* the new countdown; it makes no bus access (so fetches no opcode) and       *)
(* leaves every register, flag, the decoded opcode, the resolved address,     *)
(* RAM, the picture unit and the cartridge as they were.                      *)
Thm_C11 ==
    (op.name = "clock" /\ pre._cycles # 0) =>
        /\ op.exc = None
        /\ _cycles = pre._cycles - 1
        /\ _clock_count = pre._clock_count + 1
        /\ op.ret = _cycles
        /\ log = <<>>
        /\ World = [pre EXCEPT !._cycles = _cycles, !._clock_count = _clock_count]

\* A call in the middle of a countdown: the countdown was 3 before it.
Wit_C11 ==
    /\ op.name = "clock" /\ pre._cycles = 3
    /\ _cycles = 2 /\ _opcode = pre._opcode /\ pc_reg = pre.pc_reg

\* The clock() calls the last Bus.clock() made to the picture unit and to
\* the processor.
PpuCalls ==
    Count(log, <<"ppu.clock">>)

CpuCalls ==
    Count(log, <<"cpu.clock">>)

(* C12: every Bus.clock() call ticks the picture unit exactly once, before    *)
(* anything else, and then ticks the processor exactly when the number of     *)
(* Bus.clock() calls made before it since the reset (or construction) is a    *)
(* multiple of 3.  So after n bus clocks the picture unit has ticked n times  *)
(* and the processor ceil(n/3) times, and from one processor tick to the next *)
(* the picture unit ticks exactly 3 times.                                    *)
Thm_C12 ==
    /\ busTicks.ppu = busTicks.n
    /\ busTicks.cpu = (busTicks.n + 2) \div 3
    /\ (op.name = "busclock" /\ op.exc = None) =>
           /\ PpuCalls = 1 /\ log[1] = <<"ppu.clock">>
           /\ ppu._clock_count = pre.ppu._clock_count + 1
           /\ CpuCalls = (IF (busTicks.n - 1) % 3 = 0 THEN 1 ELSE 0)
           /\ _clock_count = pre._clock_count + CpuCalls
           /\ (CpuCalls = 1 /\ busTicks.cpu >= 2) => busTicks.gap = 3

\* The seventh Bus.clock() after a reset: the third to tick the processor.
Wit_C12 ==
    /\ op.name = "busclock" /\ calls > 0
    /\ busTicks.n = 7 /\ busTicks.cpu = 3 /\ CpuCalls = 1 /\ busTicks.gap = 3

(* C13: Bus.reset() resets the processor (as CPU.reset() does) and the        *)
(* picture unit's registers and position, and zeroes the ratio counter; the   *)
(* first Bus.clock() after it ticks the processor, however many bus clocks    *)
(* came before the reset.                                                     *)
Thm_C13 ==
    /\ op.name = "busreset" =>
           /\ _system_clock_count = 0
           /\ a_reg = 0 /\ x_reg = 0 /\ y_reg = 0 /\ sp_reg = 253 /\ _cycles = 8
           /\ pc_reg = Or(log[1][3], Shl(log[2][3], 8))
           /\ ppu.controller_reg = 0 /\ ppu.mask_reg = 0 /\ ppu.status_reg = 0
           /\ ppu.address_reg = 0 /\ ppu.data_reg = 0
           /\ ppu._cycles = 0 /\ ppu._scanline = 0
    /\ (op.name = "busclock" /\ calls > 0 /\ busTicks.n = 1) =>
           /\ CpuCalls = 1
           /\ _clock_count = pre._clock_count + 1

\* The first Bus.clock() after a reset that came after a number of bus
\* clocks that is not a multiple of 3.
Wit_C13 ==
    /\ op.name = "busclock" /\ calls = 1 /\ busTicks.n = 1
    /\ ppu._clock_count % 3 = 2
    /\ _clock_count = pre._clock_count + 1

\* The last driver call was a Bus.read or a Bus.write, and its arguments.
BusAccess ==
    op.name \in {"busread", "buswrite"}

AccessAddress ==
    op.args[1]

(* C14: after Bus.write(a, d) with a in 0x0000..0x1FFF, a Bus.read of each of *)
(* the addresses b of that window with b & 0x07FF = a & 0x07FF (a, and a      *)
(* shifted by multiples of 0x0800) returns d, and every RAM cell at another   *)
(* physical offset is as it was; a Bus.read in the window returns the cell at *)
(* the address's offset & 0x07FF and changes nothing.                         *)
Thm_C14 ==
    /\ (op.name = "buswrite" /\ AccessAddress \in 0..8191) =>
           /\ op.exc = None
           /\ \A b \in {(AccessAddress % 2048) + 2048 * k : k \in 0..3}, read_only \in BOOLEAN :
                  Bus_read_result(World, b, read_only).val = op.args[2]
           /\ \A i \in ((DOMAIN ram) \cup (DOMAIN pre.ram)) \ {AccessAddress % 2048} :
                  ListGet(ram, i) = ListGet(pre.ram, i)
           /\ DOMAIN ram \subseteq 0..2047
    /\ (op.name = "busread" /\ AccessAddress \in 0..8191) =>
           /\ op.exc = None
           /\ op.ret = ListGet(pre.ram, AccessAddress % 2048)
           /\ World = pre

\* The byte 0x37 written to 0x17FF and to 0x1000, then read at 0x07FF.
Wit_C14 ==
    /\ op.name = "busread" /\ AccessAddress = 2047 /\ op.ret = 55
    /\ ListGet(ram, 0) = 55

(* C15: a Bus.read(a, read_only) or Bus.write(a, d) with a in 0x2000..0x3FFF  *)
(* returns what the picture unit's read of port a & 7 returns and leaves the  *)
(* picture unit as that port's read or write leaves it; RAM and the           *)
(* cartridge are as before.                                                   *)
Thm_C15 ==
    (BusAccess /\ AccessAddress \in 8192..16383) =>
        /\ op.exc = None
        /\ ram = pre.ram /\ cart = pre.cart
        /\ op.name = "busread" =>
               /\ op.ret = PPU_read(pre.ppu, pre.cart, AccessAddress % 8, op.args[2]).val
               /\ ppu = PPU_read(pre.ppu, pre.cart, AccessAddress % 8, op.args[2]).ppu
        /\ op.name = "buswrite" =>
               ppu = PPU_write(pre.ppu, pre.cart, AccessAddress % 8, op.args[2])

\* A read of the data port through its last mirror, 0x3FFF, after the
\* controller's increment mode was set and the data port written once.
Wit_C15 ==
    /\ op.name = "busread" /\ op.args = <<16383, FALSE>>
    /\ pre.ppu.address_reg = 32 /\ ppu.address_reg = 64
    /\ ppu.controller_reg = 132

MaskedToOneBank(a, p) ==
    IF a \in 0..8191 THEN a
    ELSE IF a \in 32768..65535 THEN (IF p = 1 THEN a % 16384 ELSE a % 32768)
    ELSE -1

WroteToMapped ==
    /\ op.name \in {"cartwrite", "buswrite"}
    /\ op.name = "buswrite" => AccessAddress \notin 0..16383
    /\ pre.cart # None
    /\ pre.cart.mapper # None

\* C18: with a cartridge (with its mapper) inserted, a write to an address
\* the mapper reports as unmapped raises nothing and changes neither program
\* memory, pattern memory nor RAM, and a write to a program address stores
\* the byte at the mapper's offset for the address.
Claim_C18 ==
    WroteToMapped =>
        /\ op.exc = None
        /\ AccessAddress \notin (0..8191) \cup (32768..65535) => World = pre
        /\ AccessAddress \in 32768..65535 =>
               ListGet(cart.prg_memory, Mapper000_map_read(cart.mapper, AccessAddress)) = op.args[2]

\* The last driver call was a read or a write on a cartridge whose
\* construction failed to open its file.
OnInvalid ==
    /\ op.name \in {"cartread", "cartwrite"}
    /\ ~pre.cart.valid_image

(* C19: constructing a Cartridge from a path that cannot be opened raises     *)
(* nothing and leaves the valid flag false, the mapper None, both bank counts *)
(* 0 and both memories empty; Cartridge.read on such a cartridge returns 0    *)
(* and Cartridge.write does nothing, at every address, and neither raises.    *)
Thm_C19 ==
    /\ (op.name = "insert" /\ op.args[1] = Unopenable) =>
           /\ op.exc = None
           /\ cart # None
           /\ ~cart.valid_image /\ cart.mapper = None
           /\ cart.prg_banks = 0 /\ cart.chr_banks = 0
           /\ cart.prg_size = 0 /\ cart.chr_size = 0
           /\ cart.prg_memory = ZeroList /\ cart.chr_memory = ZeroList
    /\ OnInvalid =>
           /\ op.exc = None
           /\ World = pre
           /\ op.name = "cartread" => op.ret = 0

\* A read of 0x8000 on a cartridge whose file could not be opened.
Wit_C19 ==
    /\ OnInvalid /\ op.name = "cartread" /\ AccessAddress = 32768
    /\ cart.mapper = None /\ op.ret = 0

\* C20: constructing a Cartridge from a readable image whose flag bytes encode
\* mapper id 0 raises nothing, records the header's two bank counts, installs
\* a baseline mapper built from them and sets the valid flag.
Claim_C20 ==
    (op.name = "insert" /\ op.args[1] # Unopenable /\ Cartridge_mapper_id(op.args[1]) = 0) =>
        /\ op.exc = None
        /\ cart # None
        /\ cart.prg_banks = op.args[1].prg_rom_chunks
        /\ cart.chr_banks = op.args[1].chr_rom_chunks
        /\ cart.mapper = [prg_banks |-> cart.prg_banks, chr_banks |-> cart.chr_banks]
        /\ cart.valid_image

\* The registers other than the program counter, as a tuple.
OtherRegisters(w) ==
    <<w.a_reg, w.x_reg, w.y_reg, w.sp_reg>>

\* C21: executing an opcode byte whose table entry carries the mnemonic "???"
\* advances PC by exactly 1, changes no other register, no status flag and no
\* memory byte, and sets the countdown so that the instruction occupies
\* exactly the table's cycle count; and no opcode byte makes clock() raise.
Claim_C21 ==
    /\ (op.name = "clock" /\ op.fetch) => op.exc = None
    /\ (Executed /\ Entry[1] = "???") =>
           /\ pc_reg = pre.pc_reg + 1
           /\ OtherRegisters(World) = OtherRegisters(pre)
           /\ status_reg = pre.status_reg
           /\ ram = pre.ram
           /\ op.ret + 1 = Entry[4]

\* C22: in every state reachable from power-up by clock, reset,
\* interrupt_request and nonmaskable_interrupt_request calls, the accumulator,
\* X, Y, the stack pointer and the status register lie in 0..255 and PC lies
\* in 0..65535.
Claim_C22 ==
    /\ a_reg \in 0..255 /\ x_reg \in 0..255 /\ y_reg \in 0..255
    /\ sp_reg \in 0..255
    /\ status_reg \in 0..255
    /\ pc_reg \in 0..65535

(* Runs that leave the address space and the stack page. *)

\* Programs whose execution takes PC, SP or an operand address outside
\* their hardware ranges, or touches the picture unit's ports:
\* BNE with operand 0xFE at address 0 (target 0x10000);
\* LDX #0, TXS, PHA, PHP, PLA;
\* LDX #$FF, STX $2000, STX $2007, LDA $2007;
\* JMP $2002;
\* INC $FE, ASL $80, DEC $82;
\* JSR $0234;
\* RTI;
\* LDX #1, LDA $FFFF,X, STA $FFFF,X.
RunPrograms ==
    { <<208, 254>>,
      <<162, 0, 154, 72, 8, 104>>,
      <<162, 255, 142, 0, 32, 142, 7, 32, 173, 7, 32>>,
      <<76, 2, 32>>,
      <<230, 254, 6, 128, 198, 130>>,
      <<32, 52, 2>>,
      <<64>>,
      <<162, 1, 189, 255, 255, 157, 255, 255>> }

LoadRun ==
    \E bytes \in RunPrograms \cup DriverPrograms : Load(bytes)

\* A driver that loads one of these programs and then clocks, resets and
\* interrupts the processor in any order.
NextRun ==
    \/ LoadRun
    \/ Clock
    \/ Reset
    \/ IRQ
    \/ NMI

SpecRun ==
    Init /\ [][NextRun]_vars

PpuClock ==
    /\ ppu._clock_count < MaxPpuClock
    /\ since = "ppureset" => ticks < MaxAfterReset
    /\ Commit([World EXCEPT !.ppu = PPU_clock(@)])
    /\ op' = [name |-> "ppuclock", fetch |-> FALSE, ret |-> 0, exc |-> None]
    /\ ticks' = IF since = "ppureset" THEN ticks + 1 ELSE ticks
    /\ UNCHANGED <<fetchPre, entered, since, calls, busTicks>>

\* The driver calls PPU.reset(), on the first scanline, on the last one or
\* on the pre-render one.
PpuReset ==
    /\ calls < MaxCalls
    /\ ppu._scanline \in {-1, 0, 260}
    /\ Commit([World EXCEPT !.ppu = PPU_reset(@)])
    /\ op' = [name |-> "ppureset", fetch |-> FALSE, ret |-> 0, exc |-> None]
    /\ since' = "ppureset" /\ ticks' = 0
    /\ calls' = calls + 1
    /\ UNCHANGED <<fetchPre, entered, busTicks>>

\* main.py's frame loop clears the flag once it has seen it:
\* nes.ppu.frame_complete = False.
ClearFrame ==
    /\ ppu.frame_complete
    /\ Commit([World EXCEPT !.ppu.frame_complete = FALSE])
    /\ op' = [name |-> "clearframe", fetch |-> FALSE, ret |-> 0, exc |-> None]
    /\ UNCHANGED <<fetchPre, entered, since, ticks, calls, busTicks>>

NextPpu ==
    \/ PpuClock
    \/ PpuReset
    \/ ClearFrame

RECURSIVE PPU_clocked(_, _)
\* The picture unit p after n PPU.clock() calls (n calls are n / 2 calls
\* twice, and one more when n is odd).
PPU_clocked(p, n) ==
    IF n = 0 THEN p
    ELSE IF n % 2 = 1 THEN PPU_clock(PPU_clocked(p, n - 1))
    ELSE Only({ PPU_clocked(h, n \div 2) : h \in {PPU_clocked(p, n \div 2)} })

\* The runs start at construction, or after the driver has clocked the
\* picture unit 260 * 341 + 335 times: 6 calls before the end of the first
\* frame.
StartPpus ==
    { PPU_init, PPU_clocked(PPU_init, 260 * 341 + 335) }

\* The state after construction, but for the picture unit, which is p.
InitWith(p) ==
    /\ a_reg = CPU_init.a_reg /\ x_reg = CPU_init.x_reg /\ y_reg = CPU_init.y_reg
    /\ sp_reg = CPU_init.sp_reg /\ pc_reg = CPU_init.pc_reg
    /\ status_reg = CPU_init.status_reg
    /\ _address = CPU_init._address /\ _opcode = CPU_init._opcode
    /\ _cycles = CPU_init._cycles /\ _clock_count = CPU_init._clock_count
    /\ ram = ZeroList
    /\ ppu = p
    /\ cart = None
    /\ _system_clock_count = 0
    /\ op = [name |-> "power", fetch |-> FALSE, ret |-> 0, exc |-> None]
    /\ log = <<>>
    /\ pre = World
    /\ fetchPre = pre
    /\ entered = [kind |-> "none", pc_reg |-> 0, sp_reg |-> 0, pushed |-> <<>>]
    /\ since = "power"
    /\ ticks = 0
    /\ calls = 0
    /\ busTicks = [n |-> 0, ppu |-> 0, cpu |-> 0, sinceCpu |-> 0, gap |-> 0]

InitPpu ==
    \E p \in StartPpus : InitWith(p)

SpecPpu ==
    InitPpu /\ [][NextPpu]_vars

\* The PPU.clock() call just made wrapped the scanline counter from 260 to -1.
FrameWrapped ==
    op.name = "ppuclock" /\ pre.ppu._scanline = 260 /\ ppu._scanline = -1

\* C24: the picture unit's cycle counter stays in 0..340 and its scanline
\* counter in -1..260; a PPU.clock() call sets the frame-complete flag when
\* it wraps the scanline counter from 260 to -1 and leaves the flag as it was
\* otherwise; PPU.reset() leaves the flag as it was, so the picture unit
\* never clears it.
Thm_C24 ==
    /\ ppu._cycles \in 0..340
    /\ ppu._scanline \in -1..260
    /\ FrameWrapped => ppu.frame_complete
    /\ (op.name = "ppuclock" /\ ~FrameWrapped) => ppu.frame_complete = pre.ppu.frame_complete
    /\ op.name = "ppureset" => ppu.frame_complete = pre.ppu.frame_complete

\* The call that ends the first frame: number 261 * 341 since construction.
Wit_C24 ==
    /\ FrameWrapped
    /\ pre.ppu._cycles = 340 /\ ppu._cycles = 0
    /\ ~pre.ppu.frame_complete /\ ppu.frame_complete
    /\ ppu._clock_count = 89001

(* Reads of the picture unit's status port. *)

\* No statement of the picture unit assigns a non-zero status register
\* (PPU.clock never raises a status flag) and data_reg only takes what a
\* data-port read returns, so the port is studied as a function of the two
\* registers: the runs start with the registers holding drawn values, 0
\* among them, as a driver that assigns the attributes leaves them.
StatusValues ==
    {0, 128, 160, 127, 255}

DataRegValues ==
    {0, 31, 234}

StatusPpus ==
    { [PPU_init EXCEPT !.status_reg = s, !.data_reg = d] : s \in StatusValues, d \in DataRegValues }

InitStatus ==
    \E p \in StatusPpus : InitWith(p)

\* The status port, 0x2002, and two of its mirrors.
StatusAddresses ==
    {8194, 8202, 16378}

StatusRead ==
    \E a \in StatusAddresses, read_only \in BOOLEAN : BusReadAt(a, read_only)

NextStatus ==
    \/ StatusRead
    \/ BusWrite

SpecStatus ==
    InitStatus /\ [][NextStatus]_vars

\* The last call was a Bus.read of the status port or of one of its mirrors.
ReadStatusPort ==
    /\ op.name = "busread"
    /\ 8192 <= AccessAddress /\ AccessAddress <= 16383
    /\ AccessAddress % 8 = 2

\* C25: a read of the status port that is not read-only leaves bit 7 of the
\* status register clear and its other bits as they were; a read-only read
\* returns the status register and leaves the picture unit as it was.
Thm_C25 ==
    ReadStatusPort =>
        IF op.args[2]
        THEN op.ret = pre.ppu.status_reg /\ ppu = pre.ppu
        ELSE /\ ~PPU_get_flag(ppu.status_reg, STATUS_VB)
             /\ ppu.status_reg % 128 = pre.ppu.status_reg % 128
             /\ ppu.status_reg \in 0..255

\* A read at the mirror 0x3FFA with every status bit set: bit 7 is cleared,
\* the other seven stay set.
Wit_C25 ==
    /\ ReadStatusPort /\ AccessAddress = 16378 /\ ~op.args[2]
    /\ pre.ppu.status_reg = 255 /\ ppu.status_reg = 127

(* Conditional branches.  The executing call reads the opcode and then the  *)
(* operand byte; the post-fetch PC is the PC before the call plus 2.        *)

\* The executed instruction is a conditional branch.
BranchExecuted ==
    Executed /\ Entry[3] = "_REL"

\* The branch condition, from the flags before the instruction.
BranchTaken ==
    CASE Entry[2] = "_BCC" -> ~Flag(pre.status_reg, FLAGS_C)
      [] Entry[2] = "_BCS" -> Flag(pre.status_reg, FLAGS_C)
      [] Entry[2] = "_BEQ" -> Flag(pre.status_reg, FLAGS_Z)
      [] Entry[2] = "_BNE" -> ~Flag(pre.status_reg, FLAGS_Z)
      [] Entry[2] = "_BMI" -> Flag(pre.status_reg, FLAGS_N)
      [] Entry[2] = "_BPL" -> ~Flag(pre.status_reg, FLAGS_N)
      [] Entry[2] = "_BVC" -> ~Flag(pre.status_reg, FLAGS_V)
      [] Entry[2] = "_BVS" -> Flag(pre.status_reg, FLAGS_V)

\* The PC after the operand fetch, and the operand byte.
PostFetchPC ==
    pre.pc_reg + 2

BranchOperand ==
    ReadValue(2)

\* C26: a taken branch with operand byte b sets PC to (PC + b) mod 65536 when
\* b < 0x80 and to (PC + b - 256) mod 65536 when b >= 0x80, PC being the
\* post-fetch program counter; a backward branch leaves PC in 0..0xFFFF.
Claim_C26 ==
    (BranchExecuted /\ BranchTaken) =>
        /\ BranchOperand < 128 => pc_reg = (PostFetchPC + BranchOperand) % 65536
        /\ BranchOperand >= 128 =>
               /\ pc_reg = (PostFetchPC + BranchOperand - 256) % 65536
               /\ pc_reg \in 0..65535

\* The target of the taken branch is in another page than the post-fetch PC.
BranchCrossed ==
    And(pc_reg, 65280) # And(PostFetchPC, 65280)

\* C27: a branch that is not taken occupies exactly 2 clock() calls; a taken
\* branch occupies more calls than that, so at least 3, and a taken branch
\* whose target is in another page than the post-fetch PC more calls than a
\* taken one whose target is in the same page, so at least 4.
Claim_C27 ==
    /\ (BranchExecuted /\ ~BranchTaken) => op.ret + 1 = 2
    /\ (BranchExecuted /\ BranchTaken) => op.ret + 1 >= 3
    /\ (BranchExecuted /\ BranchTaken /\ BranchCrossed) => op.ret + 1 >= 4

(* The stack. *)

\* The last call pushed: an interrupt entry or a push, JSR or BRK instruction,
\* whose only bus writes are its pushes.
Pushed ==
    \/ op.name \in {"irq", "nmi"}
    \/ Executed /\ Entry[2] \in {"_PHA", "_PHP", "_JSR", "_BRK"}

\* The last call executed a pull instruction: its bus reads after the opcode
\* read are its pulls.
Pulled ==
    Executed /\ Entry[2] \in {"_PLA", "_PLP", "_RTS", "_RTI"}

\* C28: every push writes inside page 0x0100..0x01FF and leaves SP
\* decremented mod 256, in 0..255; every pull reads inside the page, at
\* 0x0100 + SP after SP was incremented mod 256.
Claim_C28 ==
    /\ Pushed =>
           /\ \A i \in 1..Len(Writes(log)) : Writes(log)[i][2] \in 256..511
           /\ sp_reg = (pre.sp_reg - Len(Writes(log))) % 256
    /\ Pulled =>
           /\ \A i \in 2..Len(log) : log[i][2] \in 256..511
           /\ sp_reg = (pre.sp_reg + Len(log) - 1) % 256
           /\ log[Len(log)][2] = 256 + sp_reg

(* Indexed addresses. *)

\* The executed instruction resolved its operand in absolute,X, absolute,Y
\* or (indirect),Y mode.
IndexedExecuted ==
    Executed /\ Entry[3] \in {"_ABX", "_ABY", "_IZY"}

\* C29: in absolute,X, absolute,Y and (indirect),Y modes the resolved address
\* is (base + index) mod 65536, in 0..0xFFFF; when that is a RAM address, the
\* access reaches the RAM cell: a load gets the cell's value.
Claim_C29 ==
    /\ IndexedExecuted =>
           /\ _address = Resolved % 65536
           /\ _address \in 0..65535
    /\ (IndexedExecuted /\ Entry[2] = "_LDA" /\ Resolved % 65536 <= 8191) =>
           a_reg = ListGet(pre.ram, And(Resolved % 65536, 2047))

(* Indirect addressing. *)

\* The executed instruction resolved its operand in indirect mode; the
\* pointer is the 16-bit operand.
IndirectExecuted ==
    Executed /\ Entry[3] = "_IND"

IndirectPointer ==
    Word(2)

\* C30: indirect addressing with pointer p reads its two operand bytes at PC
\* and PC + 1, then the target's low byte at p and its high byte at p + 1, or
\* at p & 0xFF00 when the low byte of p is 0xFF; it reads nothing else and
\* leaves PC two bytes on, which JMP replaces by the target.
Thm_C30 ==
    IndirectExecuted =>
        /\ Len(log) = 5
        /\ log[2][2] = pre.pc_reg + 1 /\ log[3][2] = pre.pc_reg + 2
        /\ log[4][2] = IndirectPointer
        /\ log[5][2] = IF IndirectPointer % 256 = 255
                       THEN IndirectPointer - 255
                       ELSE IndirectPointer + 1
        /\ _address = Word(4)
        /\ Entry[2] = "_JMP" /\ pc_reg = Word(4)

\* JMP ($44FF): the pointer's high byte is read at 0x4400, not at 0x4500.
Wit_C30 ==
    /\ IndirectExecuted /\ IndirectPointer = 17663
    /\ log[4][2] = 17663 /\ log[5][2] = 17408

(* Zero-page indexing. *)

\* C31: zero-page,X and zero-page,Y resolve to (operand + index) mod 256;
\* (indirect,X) reads its pointer's low byte at (operand + X) mod 256 and its
\* high byte at (operand + X + 1) mod 256; (indirect),Y reads its pointer's
\* low byte at the operand and its high byte at (operand + 1) mod 256.
Thm_C31 ==
    /\ (Executed /\ Entry[3] = "_ZPX") =>
           _address = (ReadValue(2) + pre.x_reg) % 256
    /\ (Executed /\ Entry[3] = "_ZPY") =>
           _address = (ReadValue(2) + pre.y_reg) % 256
    /\ (Executed /\ Entry[3] = "_IZX") =>
           /\ log[3][2] = (ReadValue(2) + pre.x_reg) % 256
           /\ log[4][2] = (ReadValue(2) + pre.x_reg + 1) % 256
           /\ _address = Word(3)
    /\ (Executed /\ Entry[3] = "_IZY") =>
           /\ log[3][2] = ReadValue(2)
           /\ log[4][2] = (ReadValue(2) + 1) % 256

\* (indirect,X) with operand 0xFF and X = 0: the pointer is read at 0x00FF
\* and 0x0000.
Wit_C31 ==
    /\ Executed /\ Entry[3] = "_IZX"
    /\ ReadValue(2) = 255 /\ pre.x_reg = 0
    /\ log[3][2] = 255 /\ log[4][2] = 0

(* Addition and subtraction. *)

\* Accumulator values of the arithmetic programs; the operand takes every
\* 8-bit value.
Accumulators ==
    {0, 1, 55, 127, 128, 129, 200, 255}

\* LDA #a then ADC #m or SBC #m, with Carry clear as at power-up or set by a
\* leading SEC.
ArithPrograms ==
    { c \o <<169, a, o, m>> : c \in {<<>>, <<56>>}, a \in Accumulators, o \in {105, 233}, m \in 0..255 }

LoadArith ==
    \E bytes \in ArithPrograms : Load(bytes)

\* The driver clocks the processor through the program.
ArithClock ==
    /\ _clock_count < MaxArithClock
    /\ Clock

NextArith ==
    \/ LoadArith
    \/ ArithClock

SpecArith ==
    Init /\ [][NextArith]_vars

\* The last call executed ADC or SBC.
ArithExecuted ==
    Executed /\ Entry[2] \in {"_ADC", "_SBC"}

\* The operand as the adder takes it: M for ADC, M xor 0xFF for SBC.
Addend ==
    IF Entry[2] = "_ADC" THEN Loaded ELSE 255 - Loaded

CarryIn ==
    IF Flag(pre.status_reg, FLAGS_C) THEN 1 ELSE 0

ArithSum ==
    pre.a_reg + Addend + CarryIn

\* C32: ADC leaves A = (A + M + C) mod 256, Carry = (A + M + C > 255),
\* Overflow set exactly when A and M have the same sign and the result the
\* other one, Zero and Negative from the new A; SBC does the same with the
\* operand M xor 0xFF, which leaves A = (A - M - (1 - C)) mod 256 and Carry
\* set exactly when there was no borrow.
Thm_C32 ==
    ArithExecuted =>
        /\ a_reg = ArithSum % 256
        /\ Flag(status_reg, FLAGS_C) = (ArithSum > 255)
        /\ Flag(status_reg, FLAGS_V) =
               ((pre.a_reg >= 128) = (Addend >= 128) /\ (pre.a_reg >= 128) # (a_reg >= 128))
        /\ Flag(status_reg, FLAGS_Z) = (a_reg = 0)
        /\ Flag(status_reg, FLAGS_N) = (a_reg >= 128)
        /\ Entry[2] = "_SBC" =>
               /\ a_reg = (pre.a_reg - Loaded - (1 - CarryIn)) % 256
               /\ Flag(status_reg, FLAGS_C) = (pre.a_reg - Loaded - (1 - CarryIn) >= 0)

\* SBC #$01 from A = 0x80 with Carry set: 0x7F, no borrow, signed overflow.
Wit_C32 ==
    /\ ArithExecuted /\ Entry[2] = "_SBC"
    /\ pre.a_reg = 128 /\ Loaded = 1 /\ CarryIn = 1
    /\ a_reg = 127 /\ Flag(status_reg, FLAGS_C) /\ Flag(status_reg, FLAGS_V)

(* Subroutines and interrupts. *)

\* The last call executed BRK.
BreakExecuted ==
    Executed /\ Entry[2] = "_BRK"

\* C33: BRK at opcode address p pushes, at three descending stack addresses,
\* the high byte then the low byte of p + 2 and then the status byte with
\* Break set, and then loads PC from 0xFFFE (low) and 0xFFFF (high).
Claim_C33 ==
    BreakExecuted =>
        /\ Len(log) = 6
        /\ log[2] = <<"w", log[2][2], ((pre.pc_reg + 2) \div 256) % 256>>
        /\ log[3] = <<"w", log[2][2] - 1, (pre.pc_reg + 2) % 256>>
        /\ log[4] = <<"w", log[2][2] - 2, log[4][3]>>
        /\ Flag(log[4][3], FLAGS_B)
        /\ log[5][1] = "r" /\ log[5][2] = 65534
        /\ log[6][1] = "r" /\ log[6][2] = 65535
        /\ pc_reg = Word(5)

\* The machine a call leaves, as the next call takes it (its RAM as an
\* explicit function).
Left(w) ==
    [w EXCEPT !.log = <<>>, !.val = 0, !.ret = 0, !.exc = None, !.ram = @ @@ ZeroList]

RECURSIVE CPU_clocked(_, _)
\* The machine after n more CPU.clock() calls, n > 0: the first n \div 2 of
\* them, then the others.
CPU_clocked(w, n) ==
    IF n = 1 THEN Left(clock(w))
    ELSE CHOOSE r \in { CPU_clocked(h, n - n \div 2) : h \in {CPU_clocked(w, n \div 2)} } : TRUE

\* A program that runs the stack pointer down below -256: JMP $0300 at 0; at
\* 0x0300 TXS (SP := 0), then 256 times PHA, INX, BEQ +3, JMP $0301, then
\* PHA, JSR $0310, NOP; at 0x0310 RTS.
DeepImage ==
    << <<0, 76>>, <<1, 0>>, <<2, 3>>,
       <<768, 154>>, <<769, 72>>, <<770, 232>>, <<771, 240>>, <<772, 3>>,
       <<773, 76>>, <<774, 1>>, <<775, 3>>,
       <<776, 72>>, <<777, 32>>, <<778, 16>>, <<779, 3>>, <<780, 234>>,
       <<784, 96>> >>

\* The machine after construction.
Constructed ==
    CPU_init @@ [ram |-> ZeroList, ppu |-> PPU_init, cart |-> None,
                 _system_clock_count |-> 0,
                 log |-> <<>>, val |-> 0, ret |-> 0, exc |-> None]

\* The machine at power-up with that program loaded.
DeepLoaded ==
    Left(WriteAll(Constructed, DeepImage))

\* The clock() calls the program takes to its JSR: the jump and TXS, 255
\* rounds of the loop, the round that leaves it, and the last PHA.
DeepClocks ==
    3 + 2 + 255 * 10 + 7 + 3

\* The programs of the round trips: JSR $0004, NOP, RTS; TXS, JSR $0005,
\* NOP, RTS; JSR $0004, NOP, PHA, PLA, RTS; three with the interrupt handler
\* BNE/BCC +1, RTI at address 0, which the power-up flags skip, followed by
\* PLP, NOP, NOP (Zero set, InterruptDisable clear), by TXS, LDA #0, NOP
\* (SP = 0, Zero set) and by SEC, BNE -6 (Carry set, a backward branch); RTI.
TripPrograms ==
    { <<32, 4, 0, 234, 96>>,
      <<154, 32, 5, 0, 234, 96>>,
      <<32, 4, 0, 234, 72, 104, 96>>,
      <<208, 1, 64, 40, 234, 234>>,
      <<208, 1, 64, 154, 169, 0, 234>>,
      <<144, 1, 64, 56, 208, 250>>,
      <<64>> }

LoadTrip ==
    \E bytes \in TripPrograms : Load(bytes)

\* The driver calls CPU.clock() after the stack-filling program reached its
\* JSR.
DeepClock ==
    /\ _clock_count >= DeepClocks
    /\ _clock_count < DeepClocks + MaxDeepClock
    /\ ClockStep

\* The state the stack-filling program is in when its JSR is next: the last
\* opcode fetch, of PHA, was three clock() calls ago.
InitDeep ==
    \E f \in {CPU_clocked(DeepLoaded, DeepClocks - 3)} :
        \E w \in {CPU_clocked(f, 3)} :
            /\ a_reg = w.a_reg /\ x_reg = w.x_reg /\ y_reg = w.y_reg
            /\ sp_reg = w.sp_reg /\ pc_reg = w.pc_reg /\ status_reg = w.status_reg
            /\ _address = w._address /\ _opcode = w._opcode /\ _cycles = w._cycles
            /\ _clock_count = w._clock_count
            /\ ram = w.ram /\ ppu = w.ppu /\ cart = w.cart
            /\ _system_clock_count = w._system_clock_count
            /\ op = [name |-> "clock", fetch |-> FALSE, ret |-> 0, exc |-> None]
            /\ log = <<>>
            /\ pre = CPU_clocked(f, 2)
            /\ fetchPre = f
            /\ entered = [kind |-> "none", pc_reg |-> 0, sp_reg |-> 0, pushed |-> <<>>]
            /\ since = "fetch"
            /\ ticks = 3
            /\ calls = 0
            /\ busTicks = [n |-> 0, ppu |-> 0, cpu |-> 0, sinceCpu |-> 0, gap |-> 0]

InitTrip ==
    Init \/ InitDeep

NextTrip ==
    \/ LoadTrip
    \/ Clock
    \/ DeepClock
    \/ IRQ
    \/ NMI

SpecTrip ==
    InitTrip /\ [][NextTrip]_vars

\* The stack pointer is where the most recent entry left it, and no
\* instruction was fetched after the entry or the bytes the entry pushed
\* are still read at their addresses.
StackKept ==
    /\ pre.sp_reg = entered.sp_reg - Len(entered.pushed)
    /\ \/ since = "fetch" /\ ticks = 1 /\ fetchPre._opcode = 32 /\ entered.kind = "jsr"
       \/ \A i \in 1..Len(entered.pushed) :
              Bus_read_result(pre, entered.pushed[i][2], FALSE).val = entered.pushed[i][3]

\* The last call executed the RTS of the most recently entered subroutine,
\* with no net stack change since the JSR.
Returned ==
    /\ Executed /\ Entry[2] = "_RTS"
    /\ entered.kind = "jsr"
    /\ StackKept

\* C34: a JSR at address p pushes the high then the low byte of p + 2 and
\* jumps to its operand address; when the subroutine executes RTS with no
\* net stack change, PC = p + 3 and the stack pointer has the value it had
\* before the JSR.
Claim_C34 ==
    /\ (Executed /\ Entry[2] = "_JSR") =>
           /\ Len(Writes(log)) = 2
           /\ Writes(log)[1][3] = ((pre.pc_reg + 2) \div 256) % 256
           /\ Writes(log)[2][3] = (pre.pc_reg + 2) % 256
           /\ pc_reg = Word(2)
    /\ Returned =>
           /\ pc_reg = entered.pc_reg + 3
           /\ sp_reg = entered.sp_reg

\* The last call executed the RTI of the most recently entered interrupt
\* handler, with no net stack change since the interrupt was taken.
Resumed ==
    /\ Executed /\ Entry[2] = "_RTI"
    /\ entered.kind \in {"irq", "nmi"}
    /\ StackKept

\* C35: when an NMI or an enabled IRQ is taken with PC = p and the stack
\* pointer s in 0..255 and the handler executes RTI with no net stack
\* change, then after the RTI PC = p, the stack pointer is s and the status
\* register is the byte the interrupt pushed.
Claim_C35 ==
    (Resumed /\ entered.sp_reg \in 0..255) =>
        /\ pc_reg = entered.pc_reg
        /\ sp_reg = entered.sp_reg
        /\ status_reg = entered.pushed[3][3]

\* C36: after an IRQ was taken with InterruptDisable clear and its handler
\* returned with RTI, the stacked status byte unchanged, InterruptDisable is
\* clear again, so that a later interrupt_request() is serviced.  Stated
\* for the interrupts taken with the stack pointer in 0..255.
Claim_C36 ==
    (Resumed /\ entered.kind = "irq" /\ entered.sp_reg \in 0..255) =>
        ~Flag(status_reg, FLAGS_I)

(* The countdown. *)

\* C37: the countdown is never negative; a clock() call fetches an opcode
\* only when it starts with countdown 0, and then leaves a countdown of at
\* least 1 after its decrement, which it returns; so a call that returns 0
\* fetched nothing and ends an instruction that took at least 2 calls, and
\* the one fetch between two calls that return 0 is the first call's after
\* the earlier of them.
Thm_C37 ==
    /\ _cycles >= 0
    /\ (op.name = "clock" /\ log # <<>>) =>
           /\ pre._cycles = 0
           /\ log[1][1] = "r" /\ log[1][2] = pre.pc_reg
    /\ (op.name = "clock" /\ op.exc = None /\ pre._cycles = 0) =>
           /\ log # <<>> /\ _opcode = log[1][3]
           /\ _cycles >= 1 /\ op.ret = _cycles
    /\ (op.name = "clock" /\ op.exc = None /\ op.ret = 0) =>
           /\ _cycles = 0 /\ pre._cycles = 1 /\ log = <<>>
           /\ since = "fetch" => ticks >= 2

\* The second and last call of a two-cycle instruction returned 0.
Wit_C37 ==
    /\ op.name = "clock" /\ op.ret = 0 /\ op.exc = None
    /\ since = "fetch" /\ ticks = 2 /\ Entry[4] = 2

(* The mapper's offsets. *)

\* C38: for a mapper of n program banks and m pattern banks, every offset
\* returned for an address in 0x8000..0xFFFF is smaller than n * 16384 and
\* every offset returned for an address in 0x0000..0x1FFF is smaller than
\* m * 8192, and no Cartridge.read indexes outside program or pattern
\* memory.
Claim_C38 ==
    /\ (op.name \in {"map_read", "map_write"} /\ op.ret # -1) =>
           /\ op.args[3] \in 32768..65535 => op.ret < op.args[1] * 16384
           /\ op.args[3] \in 0..8191 => op.ret < op.args[2] * 8192
    /\ op.name = "cartread" => op.exc # IndexError

(* The picture unit's data port. *)

RECURSIVE PPU_written(_, _)
\* The picture unit after n more writes of 0 to its data port, with no
\* cartridge inserted.
PPU_written(p, n) ==
    IF n = 0 THEN p
    ELSE IF n % 2 = 1 THEN PPU_write(PPU_written(p, n - 1), None, 7, 0)
    ELSE Only({ PPU_written(h, n \div 2) : h \in {PPU_written(p, n \div 2)} })

\* Picture units the runs start with: the one of construction, and the one
\* the driver leaves by writing 0x84 to the controller port (increment 32)
\* and then 0 to the data port 256 times, which takes the address register
\* to 0x2000, the first byte of nametable 0.
PortPpus ==
    { PPU_init, PPU_written(PPU_write(PPU_init, None, 0, 132), 256) }

InitPort ==
    \E p \in PortPpus : InitWith(p)

SpecPort ==
    InitPort /\ [][NextAccess]_vars

\* The last call was a Bus.write to the data port or to one of its mirrors.
WrotePort ==
    /\ op.name = "buswrite"
    /\ 8192 <= AccessAddress /\ AccessAddress <= 16383
    /\ AccessAddress % 8 = 7

\* C39: a write through the data port to pattern address a in
\* 0x0000..0x0FFF leaves the byte read back at a + 0x1000 as it was, and a
\* write to a byte of nametable 0 leaves the byte at the same offset of
\* nametable 1 as it was.
Claim_C39 ==
    /\ (WrotePort /\ pre.ppu.address_reg \in 0..4095) =>
           PPU__read(ppu, cart, pre.ppu.address_reg + 4096)
               = PPU__read(pre.ppu, pre.cart, pre.ppu.address_reg + 4096)
    /\ (WrotePort /\ cart # None /\ pre.ppu.address_reg \in 8192..9215) =>
           ListGet(ppu.lists[ppu.name_table[2]], pre.ppu.address_reg % 1024)
               = ListGet(pre.ppu.lists[pre.ppu.name_table[2]], pre.ppu.address_reg % 1024)

(* The frame loop of main.py. *)

\* main.py line 51: nes.reset(), once, after construction.
FrameStart ==
    /\ op.name = "power"
    /\ Commit(Bus_reset(World))
    /\ op' = [name |-> "busreset", fetch |-> FALSE, ret |-> 0, exc |-> None]
    /\ busTicks' = [n |-> 0, ppu |-> 0, cpu |-> 0, sinceCpu |-> 0, gap |-> 0]
    /\ since' = "busreset" /\ ticks' = 0
    /\ UNCHANGED <<fetchPre, entered, calls>>

\* main.py lines 74-75: while not nes.ppu.frame_complete: nes.clock()
FrameClock ==
    /\ since \in {"busreset", "clearframe"}
    /\ ~ppu.frame_complete
    /\ BusClockStep
    /\ ticks' = ticks + 1
    /\ UNCHANGED since

\* main.py line 76: nes.ppu.frame_complete = False
FrameClear ==
    /\ since \in {"busreset", "clearframe"}
    /\ op.exc = None
    /\ ppu.frame_complete
    /\ calls < MaxFrames
    /\ Commit([World EXCEPT !.ppu.frame_complete = FALSE])
    /\ op' = [name |-> "clearframe", fetch |-> FALSE, ret |-> 0, exc |-> None]
    /\ since' = "clearframe" /\ ticks' = 0
    /\ calls' = calls + 1
    /\ UNCHANGED <<fetchPre, entered, busTicks>>

NextFrame ==
    \/ FrameStart
    \/ FrameClock
    \/ FrameClear

RECURSIVE Bus_clocked(_, _)
\* The machine after n more Bus.clock() calls, n > 0: the first n \div 2 of
\* them, then the others.
Bus_clocked(w, n) ==
    IF n = 1 THEN Left(Bus_clock(w))
    ELSE CHOOSE r \in { Bus_clocked(h, n - n \div 2) : h \in {Bus_clocked(w, n \div 2)} } : TRUE

\* The state of the loop n Bus.clock() calls after the reset, n > 3, in the
\* first frame.
InitFrameAt(n) ==
    \E p \in {Bus_clocked(Left(Bus_reset(Constructed)), n - 1)} :
        \E w \in {Bus_clock(p)} :
            /\ a_reg = w.a_reg /\ x_reg = w.x_reg /\ y_reg = w.y_reg
            /\ sp_reg = w.sp_reg /\ pc_reg = w.pc_reg /\ status_reg = w.status_reg
            /\ _address = w._address /\ _opcode = w._opcode /\ _cycles = w._cycles
            /\ _clock_count = w._clock_count
            /\ ram = w.ram /\ ppu = w.ppu /\ cart = w.cart
            /\ _system_clock_count = w._system_clock_count
            /\ op = [name |-> "busclock",
                     fetch |-> (Count(w.log, <<"cpu.clock">>) > 0 /\ p._cycles = 0),
                     ret |-> 0, exc |-> w.exc]
            /\ log = w.log
            /\ pre = p
            /\ fetchPre = Constructed
            /\ entered = [kind |-> "none", pc_reg |-> 0, sp_reg |-> 0, pushed |-> <<>>]
            /\ since = "busreset"
            /\ ticks = n
            /\ calls = 0
            /\ busTicks = [n |-> n, ppu |-> n, cpu |-> (n + 2) \div 3,
                           sinceCpu |-> (n - 1) % 3, gap |-> 3]

\* The runs start at construction; the run that starts three calls before
\* the end of the first frame is the same run, taken up there.
InitFrame ==
    Init \/ InitFrameAt(261 * 341 - 3)

SpecFrame ==
    InitFrame /\ [][NextFrame]_vars

\* C40: the calls of the loop raise nothing; after Bus.reset() the flag is
\* set by Bus.clock() call number 341 * 261 and by no earlier one; after the
\* driver cleared the flag it is set by the call number 341 * 262 after the
\* clearing and by no earlier one.  So the loop ends within 341 * 262 calls.
Thm_C40 ==
    /\ op.exc = None
    /\ since = "power" => ~ppu.frame_complete
    /\ since = "busreset" =>
           /\ ticks = busTicks.n /\ ticks <= 341 * 261
           /\ ppu.frame_complete <=> ticks = 341 * 261
    /\ since = "clearframe" =>
           /\ ticks <= 341 * 262
           /\ ppu.frame_complete <=> ticks = 341 * 262

\* The call that ends the first frame.
Wit_C40 ==
    /\ op.name = "busclock" /\ since = "busreset"
    /\ ~pre.ppu.frame_complete /\ ppu.frame_complete
    /\ busTicks.n = 341 * 261

====
